---------------------------- MODULE Spec2Model ----------------------------
(***************************************************************************)
(* A model of brainregister's pipeline orchestrator (class BrainRegister   *)
(* of src/brainregister/__init__.py): the artifact cache on disk, the      *)
(* orchestrator's instance fields, construction, the six stage methods     *)
(* that register() runs in order, and the two external engines (elastix    *)
(* registration, transformix transform), which are modelled by what they   *)
(* are handed and what they leave behind.                                  *)
(*                                                                         *)
(* A method of the class is an operator from a "world" record to a world   *)
(* record.  A world holds the disk (ex, data), the working directory       *)
(* (cwd), the instance fields (self), the value a method returns (ret),    *)
(* a pending Python exception (err) and the events logged since the        *)
(* orchestrator was constructed (log).                                     *)
(***************************************************************************)
EXTENDS Integers, Sequences, FiniteSets, TLC

VARIABLES
    brp,    \* the parsed brainregister_parameters.yaml
    ex,     \* the files of the artifact cache that exist
    data,   \* the content of each file of the artifact cache
    cwd,    \* the TransformParameters.* files of the working directory
    self,   \* the instance fields of the orchestrator
    phase,  \* "none": no orchestrator; "ready"; "failed": an exception ended it
    pc,     \* 0: register() not called; 1..6: its next stage; 7: it returned
    calls,  \* stage methods called on their own on this orchestrator
    log,    \* what this orchestrator did, in order (history)
    err,    \* the exception that ended the orchestrator, or "none"
    kind,   \* how the cache came to be what it is (history)
    base,   \* kind, when this orchestrator was constructed (history)
    ex0,    \* ex, when this orchestrator was constructed (history)
    data0,  \* data, when this orchestrator was constructed (history)
    env,    \* what befalls the process: an engine failure, an interruption
    px,     \* a pixel reconciliation: the volumes handed in and returned
    fp,     \* a filter pipeline object: its spec string and its fields
    sc      \* the scale computations: resolutions, factors, scaling maps

\* the state of the orchestrator and its cache
orchestrator == <<brp, ex, data, cwd, self, phase, pc, calls, log, err,
                  kind, base, ex0, data0, env>>
\* the state of the components that are functions of their arguments
components == <<px, fp, sc>>

vars == <<orchestrator, components>>

---------------------------------------------------------------------------
(* Bounds of the model *)

\* largest number of parameter files (registration stages) of one edge
MaxPm == 2
\* number of sample images beside the sample template
NumImages == 1
\* most yaml switches (save flags, filters) turned off in one configuration
MaxOff == 2
\* most stage methods called on their own on one orchestrator
MaxCalls == 1
\* most voxels of a volume whose voxel values are modelled
MaxVoxels == 2
\* most clauses of a filter spec
MaxClauses == 2
\* most runs over one cache whose scale computations are modelled
MaxRuns == 2
\* voxel values are the multiples of 1/Den
Den == 2
\* latest write of a process at which an interruption is modelled
MaxKill == 6
\* most parameter files of a registration whose file names are sorted
MaxNames == 11

---------------------------------------------------------------------------
(* Values *)

\* FinalBSplineInterpolationOrder of the shipped parameter templates
ContinuousOrder == 3
\* FinalBSplineInterpolationOrder written by edit_pms_nearest_neighbour
NearestNeighbour == 0
\* decimal digits the scale factors are rounded to, and "{:.6f}" writes
RoundDigits == 6

\* a volume: the file it was read from and what was done to it since
Img(src, n) == [src |-> src, n |-> n, ops |-> <<>>]
\* Python's None where a volume is expected
NoImg == Img("None", 0)
\* Python's None where a list of parameter maps is expected
NoPm == <<>>
\* a parameter map; edge and i name the template it was made from
Map(edge, i, order, mov, fix) ==
    [edge |-> edge, i |-> i, order |-> order, mov |-> mov, fix |-> fix]
NoMap == Map("None", 0, 0, NoImg, NoImg)

\* volume after filter pipeline `spec` ran on it
Filtered(img, spec) ==
    [img EXCEPT !.ops = Append(@, [k |-> "F", a |-> spec, o |-> <<>>])]
\* the volume file left where the write of img was cut short
Torn(img) ==
    [img EXCEPT !.ops = Append(@, [k |-> "X", a |-> "torn", o |-> <<>>])]
\* volume after the transform engine applied the parameter maps pms to it
Transformed(img, pms) ==
    [img EXCEPT !.ops = Append(@, [k |-> "T", a |-> pms[1].edge,
                                  o |-> [i \in 1..Len(pms) |-> pms[i].order]])]

---------------------------------------------------------------------------
(* The artifact cache: file keys *)

PmIdx == 1..MaxPm
ImIdx == 1..NumImages

PmFiles == ({"fs_ds_pm", "ds_fs_pm"} \X {1}) \cup
           ({"ds_ccf_pm", "ccf_ds_pm"} \X PmIdx)
VolFiles == ({"template_ds", "template_ds_ccf", "ccf_template_ds",
              "ccf_annotation_ds", "ccf_template_ds_fs",
              "ccf_annotation_ds_fs"} \X {0}) \cup
            ({"image_ds", "image_ds_ccf"} \X ImIdx)
Files == PmFiles \cup VolFiles
\* the IterationInfo.* files elastix leaves in the working directory
IterationInfo == {<<"IterationInfo", 0>>}
\* the output directories fs_ds_dir, ds_ccf_dir, ccf_ds_dir, ds_fs_dir
Dirs == {"fs_ds_dir", "ds_ccf_dir", "ccf_ds_dir", "ds_fs_dir"} \X {0}


---------------------------------------------------------------------------
(* The configuration (brainregister_parameters.yaml) *)

Flags == {"fs_ds_save_template", "fs_ds_save_images", "fs_ds_adaptive_filter",
          "ds_ccf_save_template", "ds_ccf_save_images",
          "ccf_ds_save_template", "ccf_ds_save_annotation",
          "ds_fs_save_template", "ds_fs_save_annotation"}
Prefilters == {"ds_ccf_prefilter", "ccf_ds_prefilter"}

\* the lengths of downsampled-to-ccf-parameters-files and of
\* ccf-to-downsampled-parameters-files
ParametersFiles == {"ds_ccf_parameters_files", "ccf_ds_parameters_files"}

\* a sample-template-resolution that has been set: x-um, y-um, z-um
SetResolution == <<1, 1, 1>>

\* the yaml with the switches in `off` turned off (a save flag False, a
\* prefilter "none") and n parameter files for each registered edge:
\* pm_files is the length of the two lists of transform-params-filenames
Yaml(off, n) ==
    [k \in Flags \cup Prefilters \cup {"pm_files", "sample_template_resolution"}
            \cup ParametersFiles |->
        IF k \in Flags THEN k \notin off
        ELSE IF k \in Prefilters
             THEN (IF k \in off THEN "none"
                   ELSE IF k = "ds_ccf_prefilter" THEN "adaptive" ELSE "G,2,2,2")
             ELSE IF k = "sample_template_resolution" THEN SetResolution
             ELSE n]

\* the configurations: the lists of an edge have n entries each, or one
\* list of parameters-files has m entries instead
Configs == {[Yaml(off, n) EXCEPT ![k] = m] :
               off \in {o \in SUBSET (Flags \cup Prefilters) :
                           Cardinality(o) <= MaxOff},
               n \in PmIdx, k \in ParametersFiles, m \in PmIdx}

---------------------------------------------------------------------------
(* Worlds *)

Fields == {"template_img", "template_ds_img", "template_ds_img_filt",
           "template_ds_ccf_img", "ccf_template_img", "ccf_template_ds_img",
           "ccf_template_img_filt", "ccf_template_ds_fs_img",
           "ccf_annotation_img", "ccf_annotation_ds_img",
           "ccf_annotation_ds_fs_img"}
PmFields == {"fs_ds_pm", "ds_fs_pm", "ds_fs_pm_anno", "ds_ccf_pm",
             "ccf_ds_pm", "ccf_ds_pm_anno"}
BoolFields == {"ds_ccf_prefiltered", "ccf_ds_prefiltered"}

\* the instance before __init__ has set anything
NoSelf == [f \in Fields \cup PmFields \cup BoolFields |->
             IF f \in Fields THEN NoImg
             ELSE IF f \in PmFields THEN NoPm ELSE FALSE]

Ok(w) == w.err = "none"
\* the rest of a method, F, goes on in the world w that the statements
\* before it left; an exception they raised passes through instead
Run(w, F(_)) == CHOOSE r \in {IF Ok(v) THEN F(v) ELSE v : v \in {w}} : TRUE
Raise(w, e) == Run(w, LAMBDA v : [v EXCEPT !.err = e])
Ret(w, x) == [w EXCEPT !.ret = x]
Set(w, f, x) == [w EXCEPT !.self[f] = x]
\* self.f = <the value the call that ended in w returned>
Assign(w, f) == Run(w, LAMBDA v : Set(v, f, v.ret))
\* append an event to the log, with the files that exist at that moment
\* (for a "write", the moment before it)
Note(w, op, key, img, img2, pm) ==
    [w EXCEPT !.log = Append(@, [op |-> op, key |-> key, img |-> img,
                                 img2 |-> img2, pm |-> pm, ex |-> w.ex])]
Enter(w, name) == Note(w, "enter", <<name, 0>>, NoImg, NoImg, NoPm)
\* the method returns: an exception on the way leaves no "exit" event
Exit(w, name) ==
    Run(w, LAMBDA v : Note(v, "exit", <<name, 0>>, NoImg, NoImg, NoPm))

\* paths set by resolve_image_paths, resolve_param_paths, resolve_ccf_params
template_path_ds == <<"template_ds", 0>>
template_path_ds_ccf == <<"template_ds_ccf", 0>>
ccf_template_path_ds == <<"ccf_template_ds", 0>>
ccf_annotation_path_ds == <<"ccf_annotation_ds", 0>>
ccf_template_path_ds_fs == <<"ccf_template_ds_fs", 0>>
ccf_annotation_path_ds_fs == <<"ccf_annotation_ds_fs", 0>>
sample_images_ds(i) == <<"image_ds", i>>
sample_images_ds_ccf(i) == <<"image_ds_ccf", i>>
fs_ds_pm_path == << <<"fs_ds_pm", 1>> >>
ds_fs_pm_path == << <<"ds_fs_pm", 1>> >>
ds_ccf_pm_paths(w) == [i \in 1..w.brp.pm_files |-> <<"ds_ccf_pm", i>>]
ccf_ds_pm_paths(w) == [i \in 1..w.brp.pm_files |-> <<"ccf_ds_pm", i>>]
\* get_elastix_params: the parameter templates of an edge, in yaml order
elastix_params(w, edge) == [i \in 1..w.brp.pm_files |-> [edge |-> edge, i |-> i]]

---------------------------------------------------------------------------
(* Image and parameter file I/O *)

\* sitk.ReadImage of an input volume (sample template, sample image, CCF
\* template, CCF annotation)
ReadImage(w, src, n) ==
    Run(w, LAMBDA v :
        Ret(Note(v, "read_src", <<src, n>>, Img(src, n), NoImg, NoPm),
            Img(src, n)))

\* sitk.ReadImage of a volume of the artifact cache
load_image(w, path) ==
    Run(w, LAMBDA v :
        IF path \in v.ex
        THEN Ret(Note(v, "read", path, v.data[path], NoImg, NoPm), v.data[path])
        ELSE Raise(v, "RuntimeError: image file does not exist"))

\* the writes this process has begun
Writes(w) == Cardinality({i \in DOMAIN w.log : w.log[i].op = "write"})
\* the process is interrupted at the write it has just begun
Killed(w) == w.env.kill = Writes(w)
\* the interruption, where it falls after the write just made
Interrupt(w) ==
    Run(w, LAMBDA v : IF Killed(v) THEN Raise(v, "Killed") ELSE v)

\* save_image: sitk.WriteImage writes to the path itself, so that an
\* interruption leaves a file there that is not the whole volume
save_image(w, image, path) ==
    Run(w, LAMBDA v :
        IF image = NoImg THEN Raise(v, "TypeError: WriteImage(None)")
        ELSE Run(Note(v, "write", path, image, NoImg, NoPm), LAMBDA w1 :
             IF Killed(w1)
             THEN Raise([w1 EXCEPT !.ex = @ \cup {path},
                                   !.data[path] = Torn(image)], "Killed")
             ELSE [w1 EXCEPT !.ex = @ \cup {path}, !.data[path] = image]))

\* sitk.WriteParameterFile
WriteParameterFile(w, pm, path) ==
    Run(w, LAMBDA v :
        Interrupt([Note(v, "write", path, NoImg, NoImg, <<pm>>)
                      EXCEPT !.ex = @ \cup {path}, !.data[path] = pm]))

RECURSIVE ReadParameterFiles(_, _, _)
\* the loop of load_pm_files: ReadParameterFile raises on a missing file
ReadParameterFiles(w, pm_paths, i) ==
    Run(w, LAMBDA v :
        IF i > Len(pm_paths) THEN v
        ELSE IF pm_paths[i] \notin v.ex
        THEN Raise(v, "RuntimeError: parameter file does not exist")
        ELSE ReadParameterFiles(Ret(v, Append(v.ret, v.data[pm_paths[i]])),
                                pm_paths, i + 1))

load_pm_files(w, pm_paths) ==
    Run(w, LAMBDA v :
        IF pm_paths[1] \in v.ex
        THEN ReadParameterFiles(
                 Ret(Note(v, "load_pm", <<pm_paths[1][1], Len(pm_paths)>>,
                          NoImg, NoImg, NoPm), <<>>),
                 pm_paths, 1)
        ELSE Ret(v, NoPm))

\* self.<f> = load_pm_files(pm_paths) without the message
LoadOrReport_silent(w, pm_paths, f) == Assign(load_pm_files(w, pm_paths), f)

\* self.<f> = load_pm_files(pm_paths) and, where that is None, the message
\* print("ERROR : <f> files do not exist - run register() first"), after
\* which the method goes on
LoadOrReport(w, pm_paths, f) ==
    Run(Assign(load_pm_files(w, pm_paths), f), LAMBDA v :
        IF v.self[f] = NoPm
        THEN Note(v, "print", <<f, 0>>, NoImg, NoImg, NoPm)
        ELSE v)

fs_ds_pm_path_exists(w) == fs_ds_pm_path[1] \in w.ex
ds_fs_pm_path_exists(w) == ds_fs_pm_path[1] \in w.ex
\* ds_ccf_pm_files_exist looking at the paths of the other direction
ds_ccf_pm_files_exist_other_edge(w) ==
    \A i \in 1..Len(ccf_ds_pm_paths(w)) : ccf_ds_pm_paths(w)[i] \in w.ex

ds_ccf_pm_files_exist(w) ==
    \A i \in 1..Len(ds_ccf_pm_paths(w)) : ds_ccf_pm_paths(w)[i] \in w.ex
ccf_ds_pm_files_exist(w) ==
    \A i \in 1..Len(ccf_ds_pm_paths(w)) : ccf_ds_pm_paths(w)[i] \in w.ex

---------------------------------------------------------------------------
(* The engines and the filter pipeline *)

\* transform_image(template_img, pm_list): transformix, then cast_image.
\* `art` is the output path of the artifact being produced; the code does
\* not pass it, it only labels the logged engine call.
transform_image(w, template_img, pm_list, art) ==
    Run(w, LAMBDA v :
        IF pm_list = NoPm
        THEN Raise(v, "TypeError: 'NoneType' object is not subscriptable")
        ELSE IF template_img = NoImg
        THEN Raise(v, "TypeError: SetMovingImage(None)")
        ELSE Ret(Note(v, "transformix", art, template_img, NoImg, pm_list),
                 Transformed(template_img, pm_list)))

\* the parameter maps elastix computes, one per parameter template
ElastixOutput(moving, fixed, ep) ==
    [i \in 1..Len(ep) |-> Map(ep[i].edge, i, ContinuousOrder, moving, fixed)]

\* elastix at work: it leaves the first n of its TransformParameters.<i>.txt
\* files in the working directory (replacing those of the same name), and
\* IterationInfo.* files.  The working directory is kept in the order of the
\* file names; the field i of a map is the number in the name of its file.
ElastixRuns(w, moving_img, fixed_img, parameter_map_vector, n) ==
    Note([w EXCEPT !.cwd = SubSeq(ElastixOutput(moving_img, fixed_img,
                                                parameter_map_vector), 1, n)
                             \o SelectSeq(@, LAMBDA m : m.i > n),
                   !.ex = @ \cup IterationInfo],
         "elastix", <<parameter_map_vector[1].edge, n>>,
         moving_img, fixed_img, NoPm)

\* elastixImageFilter.Execute() returning where the engine has failed
Execute_elastix_silent(w, moving_img, fixed_img, parameter_map_vector) ==
    Run(w, LAMBDA v :
        Ret(ElastixRuns(v, moving_img, fixed_img, parameter_map_vector,
                        IF v.env.fails = parameter_map_vector[1].edge
                        THEN v.env.after ELSE Len(parameter_map_vector)),
            Transformed(moving_img,
                        ElastixOutput(moving_img, fixed_img,
                                      parameter_map_vector))))

\* elastixImageFilter.Execute(), then GetResultImage(): Execute raises
\* where the engine fails
Execute_elastix(w, moving_img, fixed_img, parameter_map_vector) ==
    Run(w, LAMBDA v :
        IF v.env.fails = parameter_map_vector[1].edge
        THEN Raise(ElastixRuns(v, moving_img, fixed_img, parameter_map_vector,
                               v.env.after),
                   "RuntimeError: elastix failed")
        ELSE Ret(ElastixRuns(v, moving_img, fixed_img, parameter_map_vector,
                             Len(parameter_map_vector)),
                 Transformed(moving_img,
                             ElastixOutput(moving_img, fixed_img,
                                           parameter_map_vector))))

\* register_image that leaves the IterationInfo.* files where they are
register_image_keeping_logs(w, moving_img, fixed_img, parameter_map_vector) ==
    Run(w, LAMBDA v :
        IF moving_img = NoImg \/ fixed_img = NoImg
        THEN Raise(v, "TypeError: SetMovingImage(None)")
        ELSE Execute_elastix(v, moving_img, fixed_img, parameter_map_vector))

\* register_image that calls Execute once more where the engine failed
register_image_retrying(w, moving_img, fixed_img, parameter_map_vector) ==
    Run(w, LAMBDA v :
        IF moving_img = NoImg \/ fixed_img = NoImg
        THEN Raise(v, "TypeError: SetMovingImage(None)")
        ELSE Run(CHOOSE r \in
                   {IF Ok(once) THEN once
                    ELSE Execute_elastix([once EXCEPT !.err = "none"],
                                         moving_img, fixed_img,
                                         parameter_map_vector) :
                    once \in {Execute_elastix(v, moving_img, fixed_img,
                                              parameter_map_vector)}} : TRUE,
                 LAMBDA w1 : [w1 EXCEPT !.ex = @ \ IterationInfo]))

\* register_image: Execute, then the removal of every IterationInfo.* file
\* of the working directory
register_image(w, moving_img, fixed_img, parameter_map_vector) ==
    Run(w, LAMBDA v :
        IF moving_img = NoImg \/ fixed_img = NoImg
        THEN Raise(v, "TypeError: SetMovingImage(None)")
        ELSE Run(Execute_elastix(v, moving_img, fixed_img, parameter_map_vector),
                 LAMBDA w1 : [w1 EXCEPT !.ex = @ \ IterationInfo]))

RECURSIVE Decimal(_)
\* str(n), as the places its characters have among '.', '0', ..., '9'
Decimal(n) ==
    IF n < 10 THEN <<n + 1>> ELSE Append(Decimal(n \div 10), (n % 10) + 1)

\* what follows "TransformParameters." in the name of the file elastix
\* writes for its i-th parameter map, up to the '.' of ".txt"
NameOf(i) == Append(Decimal(i - 1), 0)

\* the order of str: a comes before b
Before(a, b) ==
    \E k \in 1..Len(a) :
        /\ k <= Len(b)
        /\ \A j \in 1..(k - 1) : a[j] = b[j]
        /\ a[k] < b[k]

\* save_pm_files, lines 1484-1487: the TransformParameters.* files of the
\* working directory, sorted by name
SortedParameters(files) ==
    SortSeq(files, LAMBDA x, y : Before(NameOf(x.i), NameOf(y.i)))

RECURSIVE RenameParams(_, _, _)
\* the loop of save_pm_files over the sorted TransformParameters.* files
RenameParams(w, pm_paths, i) ==
    Run(w, LAMBDA v :
        IF v.cwd = <<>> THEN v
        ELSE IF i > Len(pm_paths)
        THEN Raise(v, "IndexError: list index out of range")
        ELSE RenameParams(
                 Interrupt(
                 [Note(v, "write", pm_paths[i], NoImg, NoImg, <<Head(v.cwd)>>)
                     EXCEPT !.ex = @ \cup {pm_paths[i]},
                            !.data[pm_paths[i]] = Head(v.cwd),
                            !.cwd = Tail(@)]),
                 pm_paths, i + 1))

save_pm_files(w, pm_paths) ==
    Run(w, LAMBDA v :
        RenameParams([v EXCEPT !.cwd = SortedParameters(@)], pm_paths, 1))

\* the maps of pms left with the order they have
NearestNeighbourMaps_unedited(pms) == pms

\* every map of pms with FinalBSplineInterpolationOrder 0
NearestNeighbourMaps(pms) ==
    [i \in 1..Len(pms) |-> [pms[i] EXCEPT !.order = NearestNeighbour]]

\* edit_pms_nearest_neighbour(self.<f>): the maps of the list it is handed
\* are edited in place and the same list is returned.  The log keeps the
\* list as it is when the method is called ("edit") and as it is when the
\* method returns ("edited").
edit_pms_nearest_neighbour(w, f) ==
    Run(w, LAMBDA v :
        IF v.self[f] = NoPm THEN Ret(v, NoPm)
        ELSE Run(Note(v, "edit", <<f, 0>>, NoImg, NoImg, v.self[f]), LAMBDA w1 :
             Run(Set(w1, f, NearestNeighbourMaps(w1.self[f])), LAMBDA w2 :
             Ret(Note(w2, "edited", <<f, 0>>, NoImg, NoImg, w2.self[f]),
                 w2.self[f]))))

\* the filter spec of the pipeline compute_adaptive_filter_fs_ds builds
compute_adaptive_filter_fs_ds == "M,c2s/2"

\* the filter spec of the pipeline compute_adaptive_filter builds, "None"
\* when it returns None
compute_adaptive_filter(filter_string) ==
    IF filter_string = "adaptive" THEN "M,4,4,4"
    ELSE IF filter_string = "none" THEN "None"
    ELSE filter_string

apply_adaptive_filter(w, img, filter_pipeline) ==
    Run(w, LAMBDA v :
        IF filter_pipeline # "None"
        THEN IF img = NoImg THEN Raise(v, "TypeError: Execute(None)")
             ELSE Ret(Note(v, "filter", <<filter_pipeline, 0>>, img, NoImg, NoPm),
                      Filtered(img, filter_pipeline))
        ELSE Ret(v, img))

---------------------------------------------------------------------------
(* Fullstack <-> downsampled *)

get_fs_ds_scaling(w) ==
    Run(w, LAMBDA v :
        IF v.self.template_img = NoImg
        THEN Raise(v, "AttributeError: 'NoneType' object has no attribute 'GetWidth'")
        ELSE Ret(Note(v, "scale", <<"fs_ds_pm", 1>>, v.self.template_img, NoImg, NoPm),
                 << Map("fs_ds_pm", 1, ContinuousOrder, NoImg, NoImg) >>))

get_ds_fs_scaling(w) ==
    Run(w, LAMBDA v :
        IF v.self.template_img = NoImg
        THEN Raise(v, "AttributeError: 'NoneType' object has no attribute 'GetWidth'")
        ELSE Ret(Note(v, "scale", <<"ds_fs_pm", 1>>, v.self.template_img, NoImg, NoPm),
                 << Map("ds_fs_pm", 1, ContinuousOrder, NoImg, NoImg) >>))

save_fs_ds_tp_file(w) ==
    Run(w, LAMBDA v :
        IF fs_ds_pm_path[1] \notin v.ex
        THEN WriteParameterFile(v, v.self.fs_ds_pm[1], fs_ds_pm_path[1])
        ELSE v)

\* save_ds_fs_tp_file writing to the path of the other scale file
save_ds_fs_tp_file_other_path(w) ==
    Run(w, LAMBDA v :
        IF ds_fs_pm_path[1] \notin v.ex
        THEN WriteParameterFile(v, v.self.ds_fs_pm[1], fs_ds_pm_path[1])
        ELSE v)

save_ds_fs_tp_file(w) ==
    Run(w, LAMBDA v :
        IF ds_fs_pm_path[1] \notin v.ex
        THEN WriteParameterFile(v, v.self.ds_fs_pm[1], ds_fs_pm_path[1])
        ELSE v)

generate_scaling_param_files_fs_ds(w) ==
    Run(w, LAMBDA v :
    Run(Enter(v, "generate_scaling_param_files_fs_ds"), LAMBDA w0 :
    Run(IF ~fs_ds_pm_path_exists(w0)
        THEN save_fs_ds_tp_file(Assign(get_fs_ds_scaling(w0), "fs_ds_pm"))
        ELSE Assign(load_pm_files(w0, fs_ds_pm_path), "fs_ds_pm"), LAMBDA w1 :
    Run(IF ~ds_fs_pm_path_exists(w1)
        THEN save_ds_fs_tp_file(Assign(get_ds_fs_scaling(w1), "ds_fs_pm"))
        ELSE Assign(load_pm_files(w1, ds_fs_pm_path), "ds_fs_pm"), LAMBDA w2 :
    Exit(w2, "generate_scaling_param_files_fs_ds")))))

\* a getter is entered / returns w.ret
Call(w, name, i) == Note(w, "call", <<name, i>>, NoImg, NoImg, NoPm)
Return(w, name, i) ==
    Run(w, LAMBDA v : Note(v, "return", <<name, i>>, v.ret, NoImg, NoPm))

get_template_ds(w) ==
    Run(w, LAMBDA v :
    Run(Call(v, "get_template_ds", 0), LAMBDA w0 :
      IF template_path_ds \notin w0.ex
      THEN IF w0.self.template_ds_img = NoImg
           THEN Run(IF w0.self.template_img = NoImg
                    THEN Assign(ReadImage(w0, "template", 0), "template_img")
                    ELSE w0, LAMBDA w1 :
                Run(IF w1.self.fs_ds_pm = NoPm
                    THEN LoadOrReport(w1, fs_ds_pm_path, "fs_ds_pm")
                    ELSE w1, LAMBDA w2 :
                Run(IF w2.brp.fs_ds_adaptive_filter
                    THEN Assign(apply_adaptive_filter(w2, w2.self.template_img,
                                    compute_adaptive_filter_fs_ds),
                                "template_img")
                    ELSE w2, LAMBDA w3 :
                Return(Assign(transform_image(w3, w3.self.template_img,
                                  w3.self.fs_ds_pm, template_path_ds),
                              "template_ds_img"),
                       "get_template_ds", 0))))
           ELSE Return(Ret(w0, w0.self.template_ds_img), "get_template_ds", 0)
      ELSE Return(Assign(load_image(w0, template_path_ds), "template_ds_img"),
                  "get_template_ds", 0)))

save_template_ds(w) ==
    Run(w, LAMBDA v :
        IF v.brp.fs_ds_save_template /\ v.self.template_ds_img # NoImg
        THEN save_image(v, v.self.template_ds_img, template_path_ds)
        ELSE v)

\* load_transform_image_fs_ds that hands the volume to the engine as read
load_transform_image_fs_ds_unfiltered(w, src, n, art) ==
    Run(ReadImage(w, src, n), LAMBDA w1 :
    transform_image(w1, w1.ret, w1.self.fs_ds_pm, art))

\* load_transform_image_fs_ds(image_path): src, n name the input volume
load_transform_image_fs_ds(w, src, n, art) ==
    Run(ReadImage(w, src, n), LAMBDA w1 :
    Run(IF w1.brp.fs_ds_adaptive_filter
        THEN apply_adaptive_filter(w1, w1.ret, compute_adaptive_filter_fs_ds)
        ELSE w1, LAMBDA w2 :
    transform_image(w2, w2.ret, w2.self.fs_ds_pm, art)))

save_image_ds(w, index, sample_ds) ==
    Run(w, LAMBDA v :
        IF sample_images_ds(index) \notin v.ex
        THEN save_image(v, sample_ds, sample_images_ds(index))
        ELSE v)

\* process_image_ds that does not look whether the downsampled file exists
process_image_ds_unguarded(w, index) ==
    Run(w, LAMBDA v :
        Run(load_transform_image_fs_ds(v, "sample", index,
                                       sample_images_ds(index)), LAMBDA w1 :
        save_image_ds(w1, index, w1.ret)))

process_image_ds(w, index) ==
    Run(w, LAMBDA v :
        IF sample_images_ds(index) \notin v.ex
        THEN Run(load_transform_image_fs_ds(v, "sample", index,
                                            sample_images_ds(index)), LAMBDA w1 :
             save_image_ds(w1, index, w1.ret))
        ELSE v)

RECURSIVE ProcessImages(_, _)
\* the loop of transform_save_fs_ds_images
ProcessImages(w, i) ==
    Run(w, LAMBDA v :
        IF i > NumImages THEN v
        ELSE ProcessImages(process_image_ds(v, i), i + 1))

transform_save_fs_ds_images(w) ==
    Run(w, LAMBDA v :
        IF v.brp.fs_ds_save_images THEN ProcessImages(v, 1) ELSE v)

register_transform_fullstack_to_downsampled(w) ==
    Run(w, LAMBDA v :
    Run(Enter(v, "register_transform_fullstack_to_downsampled"), LAMBDA w0 :
    Run(IF ~fs_ds_pm_path_exists(w0) \/ ~ds_fs_pm_path_exists(w0)
           \/ template_path_ds \notin w0.ex
        THEN Assign(ReadImage(w0, "template", 0), "template_img")
        ELSE w0, LAMBDA w1 :
    Run(generate_scaling_param_files_fs_ds(w1), LAMBDA w2 :
    Run(Assign(get_template_ds(w2), "template_ds_img"), LAMBDA w3 :
    Run(save_template_ds(w3), LAMBDA w4 :
    Run(transform_save_fs_ds_images(w4), LAMBDA w5 :
    Exit(Set(w5, "template_img", NoImg),
         "register_transform_fullstack_to_downsampled"))))))))

---------------------------------------------------------------------------
(* Downsampled <-> CCF registration *)

\* ds_ccf_prefilter that does not record that it has filtered
ds_ccf_prefilter_unrecorded(w) ==
    Run(w, LAMBDA v :
    Run(Assign(apply_adaptive_filter(v, v.self.template_ds_img,
                   compute_adaptive_filter(v.brp.ds_ccf_prefilter)),
               "template_ds_img_filt"), LAMBDA w1 :
    Run(Assign(apply_adaptive_filter(w1, w1.self.ccf_template_img,
                   compute_adaptive_filter(w1.brp.ds_ccf_prefilter)),
               "ccf_template_img_filt"), LAMBDA w2 :
    Set(w2, "ccf_ds_prefiltered", FALSE))))

ds_ccf_prefilter(w) ==
    Run(w, LAMBDA v :
    Run(Assign(apply_adaptive_filter(v, v.self.template_ds_img,
                   compute_adaptive_filter(v.brp.ds_ccf_prefilter)),
               "template_ds_img_filt"), LAMBDA w1 :
    Run(Assign(apply_adaptive_filter(w1, w1.self.ccf_template_img,
                   compute_adaptive_filter(w1.brp.ds_ccf_prefilter)),
               "ccf_template_img_filt"), LAMBDA w2 :
    Set(Set(w2, "ds_ccf_prefiltered", TRUE), "ccf_ds_prefiltered", FALSE))))

\* ccf_ds_prefilter building its pipeline from the setting of the other
\* edge
ccf_ds_prefilter_other_edge(w) ==
    Run(w, LAMBDA v :
    Run(Assign(apply_adaptive_filter(v, v.self.template_ds_img,
                   compute_adaptive_filter(v.brp.ds_ccf_prefilter)),
               "template_ds_img_filt"), LAMBDA w1 :
    Run(Assign(apply_adaptive_filter(w1, w1.self.ccf_template_img,
                   compute_adaptive_filter(w1.brp.ds_ccf_prefilter)),
               "ccf_template_img_filt"), LAMBDA w2 :
    Set(Set(w2, "ds_ccf_prefiltered", FALSE), "ccf_ds_prefiltered", TRUE))))

ccf_ds_prefilter(w) ==
    Run(w, LAMBDA v :
    Run(Assign(apply_adaptive_filter(v, v.self.template_ds_img,
                   compute_adaptive_filter(v.brp.ccf_ds_prefilter)),
               "template_ds_img_filt"), LAMBDA w1 :
    Run(Assign(apply_adaptive_filter(w1, w1.self.ccf_template_img,
                   compute_adaptive_filter(w1.brp.ccf_ds_prefilter)),
               "ccf_template_img_filt"), LAMBDA w2 :
    Set(Set(w2, "ds_ccf_prefiltered", FALSE), "ccf_ds_prefiltered", TRUE))))

\* lines 1226-1241 and 1303-1318: make the two endpoint volumes available
LoadEndpoints(w) ==
    Run(w, LAMBDA v :
    Run(IF v.self.template_ds_img = NoImg
        THEN IF template_path_ds \in v.ex
             THEN Assign(load_image(v, template_path_ds), "template_ds_img")
             ELSE Assign(get_template_ds(v), "template_ds_img")
        ELSE v, LAMBDA w1 :
    IF w1.self.ccf_template_img = NoImg
    THEN Assign(ReadImage(w1, "ccf_template", 0), "ccf_template_img")
    ELSE w1))

\* lines 1226-1277: the endpoints, the optional prefilter and the engine call,
\* up to the parameter files the engine leaves in the working directory
ds_ccf_registration(w0) ==
    Run(LoadEndpoints(w0), LAMBDA w1 :
    Run(IF w1.brp.ds_ccf_prefilter # "none" /\ ~w1.self.ds_ccf_prefiltered
        THEN ds_ccf_prefilter(w1)
        ELSE w1, LAMBDA w2 :
    IF ~w2.self.ds_ccf_prefiltered
    THEN register_image(w2, w2.self.template_ds_img,
                        w2.self.ccf_template_img,
                        elastix_params(w2, "ds_ccf_pm"))
    ELSE register_image(w2, w2.self.template_ds_img_filt,
                        w2.self.ccf_template_img_filt,
                        elastix_params(w2, "ds_ccf_pm"))))

register_downsampled_to_ccf(w) ==
    Run(w, LAMBDA v :
    Run(Enter(v, "register_downsampled_to_ccf"), LAMBDA w0 :
      IF ~ds_ccf_pm_files_exist(w0)
      THEN Run(ds_ccf_registration(w0), LAMBDA w3 :
           Exit(save_pm_files(w3, ds_ccf_pm_paths(w3)),
                "register_downsampled_to_ccf"))
      ELSE Exit(w0, "register_downsampled_to_ccf")))

\* CCF -> downsampled registered with the volumes the other way round, as
\* downsampled -> CCF has them
ccf_ds_registration_as_ds_ccf(w0) ==
    Run(LoadEndpoints(w0), LAMBDA w1 :
    Run(IF w1.brp.ccf_ds_prefilter # "none" /\ ~w1.self.ccf_ds_prefiltered
        THEN ccf_ds_prefilter(w1)
        ELSE w1, LAMBDA w2 :
    IF ~w2.self.ccf_ds_prefiltered
    THEN register_image(w2, w2.self.template_ds_img,
                        w2.self.ccf_template_img,
                        elastix_params(w2, "ccf_ds_pm"))
    ELSE register_image(w2, w2.self.template_ds_img_filt,
                        w2.self.ccf_template_img_filt,
                        elastix_params(w2, "ccf_ds_pm"))))

\* lines 1303-1356: the same for the edge CCF -> downsampled
ccf_ds_registration(w0) ==
    Run(LoadEndpoints(w0), LAMBDA w1 :
    Run(IF w1.brp.ccf_ds_prefilter # "none" /\ ~w1.self.ccf_ds_prefiltered
        THEN ccf_ds_prefilter(w1)
        ELSE w1, LAMBDA w2 :
    IF ~w2.self.ccf_ds_prefiltered
    THEN register_image(w2, w2.self.ccf_template_img,
                        w2.self.template_ds_img,
                        elastix_params(w2, "ccf_ds_pm"))
    ELSE register_image(w2, w2.self.ccf_template_img_filt,
                        w2.self.template_ds_img_filt,
                        elastix_params(w2, "ccf_ds_pm"))))

register_ccf_to_downsampled(w) ==
    Run(w, LAMBDA v :
    Run(Enter(v, "register_ccf_to_downsampled"), LAMBDA w0 :
      IF ~ccf_ds_pm_files_exist(w0)
      THEN Run(ccf_ds_registration(w0), LAMBDA w3 :
           Exit(save_pm_files(w3, ccf_ds_pm_paths(w3)),
                "register_ccf_to_downsampled"))
      ELSE Exit(w0, "register_ccf_to_downsampled")))

---------------------------------------------------------------------------
(* Downsampled -> CCF transform *)

\* get_ds_template_ccf looking for the file of the downsampled template
\* where it should look for its own output file
get_ds_template_ccf_wrong_path(w) ==
    Run(w, LAMBDA v :
    Run(Call(v, "get_ds_template_ccf", 0), LAMBDA w0 :
      IF template_path_ds \notin w0.ex
      THEN IF w0.self.template_ds_ccf_img = NoImg
           THEN Run(IF template_path_ds \notin w0.ex
                    THEN Assign(load_transform_image_fs_ds(w0, "template", 0,
                                    template_path_ds),
                                "template_ds_img")
                    ELSE IF w0.self.template_ds_img = NoImg
                    THEN Assign(load_image(w0, template_path_ds), "template_ds_img")
                    ELSE w0, LAMBDA w1 :
                Run(IF w1.self.ds_ccf_pm = NoPm
                    THEN Assign(load_pm_files(w1, ds_ccf_pm_paths(w1)), "ds_ccf_pm")
                    ELSE w1, LAMBDA w2 :
                Return(transform_image(w2, w2.self.template_ds_img,
                                       w2.self.ds_ccf_pm, template_path_ds_ccf),
                       "get_ds_template_ccf", 0)))
           ELSE Return(Ret(w0, w0.self.template_ds_ccf_img),
                       "get_ds_template_ccf", 0)
      ELSE Return(load_image(w0, template_path_ds_ccf), "get_ds_template_ccf", 0)))

get_ds_template_ccf(w) ==
    Run(w, LAMBDA v :
    Run(Call(v, "get_ds_template_ccf", 0), LAMBDA w0 :
      IF template_path_ds_ccf \notin w0.ex
      THEN IF w0.self.template_ds_ccf_img = NoImg
           THEN Run(IF template_path_ds \notin w0.ex
                    THEN Assign(load_transform_image_fs_ds(w0, "template", 0,
                                    template_path_ds),
                                "template_ds_img")
                    ELSE IF w0.self.template_ds_img = NoImg
                    THEN Assign(load_image(w0, template_path_ds), "template_ds_img")
                    ELSE w0, LAMBDA w1 :
                Run(IF w1.self.ds_ccf_pm = NoPm
                    THEN Assign(load_pm_files(w1, ds_ccf_pm_paths(w1)), "ds_ccf_pm")
                    ELSE w1, LAMBDA w2 :
                Return(transform_image(w2, w2.self.template_ds_img,
                                       w2.self.ds_ccf_pm, template_path_ds_ccf),
                       "get_ds_template_ccf", 0)))
           ELSE Return(Ret(w0, w0.self.template_ds_ccf_img),
                       "get_ds_template_ccf", 0)
      ELSE Return(load_image(w0, template_path_ds_ccf), "get_ds_template_ccf", 0)))

save_ds_template_ccf(w) ==
    Run(w, LAMBDA v :
        IF template_path_ds_ccf \notin v.ex /\ v.self.template_ds_ccf_img # NoImg
        THEN save_image(v, v.self.template_ds_ccf_img, template_path_ds_ccf)
        ELSE v)

get_ds_image_ccf(w, index) ==
    Run(w, LAMBDA v :
    Run(Call(v, "get_ds_image_ccf", index), LAMBDA w0 :
      IF sample_images_ds_ccf(index) \notin w0.ex
      THEN Run(IF sample_images_ds(index) \notin w0.ex
               THEN load_transform_image_fs_ds(w0, "sample", index,
                                               sample_images_ds(index))
               ELSE load_image(w0, sample_images_ds(index)), LAMBDA w1 :
           Run(IF w1.self.ds_ccf_pm = NoPm
               THEN Assign(load_pm_files(w1, ds_ccf_pm_paths(w1)), "ds_ccf_pm")
               ELSE w1, LAMBDA w2 :
           Return(transform_image(w2, w1.ret, w2.self.ds_ccf_pm,
                                  sample_images_ds_ccf(index)),
                  "get_ds_image_ccf", index)))
      ELSE Return(load_image(w0, sample_images_ds_ccf(index)),
                  "get_ds_image_ccf", index)))

save_ds_image_ccf(w, index, image) ==
    Run(w, LAMBDA v :
        IF sample_images_ds_ccf(index) \notin v.ex
        THEN save_image(v, image, sample_images_ds_ccf(index))
        ELSE v)

RECURSIVE TransformImagesCcf(_, _)
\* the loop of transform_downsampled_to_ccf over the sample images
TransformImagesCcf(w, i) ==
    Run(w, LAMBDA v :
        IF i > NumImages THEN v
        ELSE Run(get_ds_image_ccf(v, i), LAMBDA w1 :
             TransformImagesCcf(save_ds_image_ccf(w1, i, w1.ret), i + 1)))

transform_downsampled_to_ccf(w) ==
    Run(w, LAMBDA v :
    Run(Enter(v, "transform_downsampled_to_ccf"), LAMBDA w0 :
    Run(IF w0.brp.ds_ccf_save_template
        THEN save_ds_template_ccf(
                 Assign(get_ds_template_ccf(w0), "template_ds_ccf_img"))
        ELSE w0, LAMBDA w1 :
    Run(IF w1.brp.ds_ccf_save_images THEN TransformImagesCcf(w1, 1) ELSE w1,
        LAMBDA w2 :
    Exit(w2, "transform_downsampled_to_ccf")))))

---------------------------------------------------------------------------
(* CCF -> downsampled transform *)

get_ccf_template_ds(w) ==
    Run(w, LAMBDA v :
    Run(Call(v, "get_ccf_template_ds", 0), LAMBDA w0 :
      IF ccf_template_path_ds \notin w0.ex
      THEN IF w0.self.ccf_template_ds_img = NoImg
           THEN Run(IF w0.self.ccf_template_img = NoImg
                    THEN Assign(ReadImage(w0, "ccf_template", 0), "ccf_template_img")
                    ELSE w0, LAMBDA w1 :
                Run(IF w1.self.ccf_ds_pm = NoPm
                    THEN Assign(load_pm_files(w1, ccf_ds_pm_paths(w1)), "ccf_ds_pm")
                    ELSE w1, LAMBDA w2 :
                Return(Assign(transform_image(w2, w2.self.ccf_template_img,
                                  w2.self.ccf_ds_pm, ccf_template_path_ds),
                              "ccf_template_ds_img"),
                       "get_ccf_template_ds", 0)))
           ELSE Return(Ret(w0, w0.self.ccf_template_ds_img),
                       "get_ccf_template_ds", 0)
      ELSE \* line 1829: a bare return
           Run(Assign(load_image(w0, ccf_template_path_ds), "ccf_template_ds_img"),
               LAMBDA w1 :
           Return(Ret(w1, NoImg), "get_ccf_template_ds", 0))))

save_ccf_template_ds(w) ==
    Run(w, LAMBDA v :
        IF ccf_template_path_ds \notin v.ex /\ v.self.ccf_template_ds_img # NoImg
        THEN save_image(v, v.self.ccf_template_ds_img, ccf_template_path_ds)
        ELSE v)

get_ccf_annotation_ds(w) ==
    Run(w, LAMBDA v :
    Run(Call(v, "get_ccf_annotation_ds", 0), LAMBDA w0 :
      IF ccf_annotation_path_ds \notin w0.ex
      THEN IF w0.self.ccf_annotation_ds_img = NoImg
           THEN Run(IF w0.self.ccf_annotation_img = NoImg
                    THEN Assign(ReadImage(w0, "ccf_annotation", 0),
                                "ccf_annotation_img")
                    ELSE w0, LAMBDA w1 :
                Run(IF w1.self.ccf_ds_pm_anno = NoPm /\ w1.self.ccf_ds_pm = NoPm
                    THEN LoadOrReport(w1, ccf_ds_pm_paths(w1), "ccf_ds_pm")
                    ELSE w1, LAMBDA w11 :
                Run(IF w11.self.ccf_ds_pm_anno = NoPm
                    THEN Assign(edit_pms_nearest_neighbour(w11, "ccf_ds_pm"),
                                "ccf_ds_pm_anno")
                    ELSE w11, LAMBDA w2 :
                Return(Assign(transform_image(w2, w2.self.ccf_annotation_img,
                                  w2.self.ccf_ds_pm_anno, ccf_annotation_path_ds),
                              "ccf_annotation_ds_img"),
                       "get_ccf_annotation_ds", 0))))
           ELSE Return(Ret(w0, w0.self.ccf_annotation_ds_img),
                       "get_ccf_annotation_ds", 0)
      ELSE Run(Assign(load_image(w0, ccf_annotation_path_ds),
                      "ccf_annotation_ds_img"), LAMBDA w1 :
           \* line 1885: SetSpacing on self.ccf_annotation_img
           IF w1.self.ccf_annotation_img = NoImg
           THEN Raise(w1, "AttributeError: 'NoneType' object has no attribute 'SetSpacing'")
           ELSE Return(w1, "get_ccf_annotation_ds", 0))))

save_ccf_annotation_ds(w) ==
    Run(w, LAMBDA v :
        IF ccf_annotation_path_ds \notin v.ex /\ v.self.ccf_annotation_ds_img # NoImg
        THEN save_image(v, v.self.ccf_annotation_ds_img, ccf_annotation_path_ds)
        ELSE v)

transform_ccf_to_downsampled(w) ==
    Run(w, LAMBDA v :
    Run(Enter(v, "transform_ccf_to_downsampled"), LAMBDA w0 :
    Run(IF w0.brp.ccf_ds_save_template
        THEN save_ccf_template_ds(
                 Assign(get_ccf_template_ds(w0), "ccf_template_ds_img"))
        ELSE w0, LAMBDA w1 :
    Run(IF w1.brp.ccf_ds_save_annotation
        THEN save_ccf_annotation_ds(
                 Assign(get_ccf_annotation_ds(w1), "ccf_annotation_ds_img"))
        ELSE w1, LAMBDA w2 :
    Exit(w2, "transform_ccf_to_downsampled")))))

---------------------------------------------------------------------------
(* Downsampled -> fullstack transform *)

get_ccf_template_ds_fs(w) ==
    Run(w, LAMBDA v :
    Run(Call(v, "get_ccf_template_ds_fs", 0), LAMBDA w0 :
      IF ccf_template_path_ds_fs \notin w0.ex
      THEN IF w0.self.ccf_template_ds_fs_img = NoImg
           THEN Run(IF w0.self.ccf_template_ds_img = NoImg
                    THEN Assign(get_ccf_template_ds(w0), "ccf_template_ds_img")
                    ELSE w0, LAMBDA w1 :
                Run(IF w1.self.ds_fs_pm = NoPm
                    THEN Assign(load_pm_files(w1, ds_fs_pm_path), "ds_fs_pm")
                    ELSE w1, LAMBDA w2 :
                Return(transform_image(w2, w2.self.ccf_template_ds_img,
                                       w2.self.ds_fs_pm, ccf_template_path_ds_fs),
                       "get_ccf_template_ds_fs", 0)))
           ELSE Return(Ret(w0, w0.self.ccf_template_ds_fs_img),
                       "get_ccf_template_ds_fs", 0)
      ELSE Return(Assign(load_image(w0, ccf_template_path_ds_fs),
                         "ccf_template_ds_fs_img"),
                  "get_ccf_template_ds_fs", 0)))

\* line 1955 reads self.ccf_template_path_ds_ds, which no method sets
save_ccf_template_ds_fs(w) ==
    Run(w, LAMBDA v :
        IF ccf_template_path_ds_fs \notin v.ex
        THEN Raise(v, "AttributeError: no attribute 'ccf_template_path_ds_ds'")
        ELSE v)

get_ccf_annotation_ds_fs(w) ==
    Run(w, LAMBDA v :
    Run(Call(v, "get_ccf_annotation_ds_fs", 0), LAMBDA w0 :
      IF ccf_annotation_path_ds_fs \notin w0.ex
      THEN IF w0.self.ccf_annotation_ds_fs_img = NoImg
           THEN Run(IF w0.self.ccf_annotation_ds_img = NoImg
                    THEN Assign(get_ccf_annotation_ds(w0), "ccf_annotation_ds_img")
                    ELSE w0, LAMBDA w1 :
                Run(IF w1.self.ds_fs_pm_anno = NoPm /\ w1.self.ds_fs_pm = NoPm
                    THEN LoadOrReport(w1, ds_fs_pm_path, "ds_fs_pm")
                    ELSE w1, LAMBDA w11 :
                Run(IF w11.self.ds_fs_pm_anno = NoPm
                    THEN Assign(edit_pms_nearest_neighbour(w11, "ds_fs_pm"),
                                "ds_fs_pm_anno")
                    ELSE w11, LAMBDA w2 :
                Return(transform_image(w2, w2.self.ccf_annotation_ds_img,
                                       w2.self.ds_fs_pm_anno,
                                       ccf_annotation_path_ds_fs),
                       "get_ccf_annotation_ds_fs", 0))))
           ELSE Return(Ret(w0, w0.self.ccf_annotation_ds_fs_img),
                       "get_ccf_annotation_ds_fs", 0)
      ELSE Return(Assign(load_image(w0, ccf_annotation_path_ds_fs),
                         "ccf_annotation_ds_fs_img"),
                  "get_ccf_annotation_ds_fs", 0)))

save_ccf_annotation_ds_fs(w) ==
    Run(w, LAMBDA v :
        IF ccf_annotation_path_ds_fs \notin v.ex
        THEN save_image(v, v.self.ccf_annotation_ds_fs_img, ccf_annotation_path_ds_fs)
        ELSE v)

transform_downsampled_to_fullstack(w) ==
    Run(w, LAMBDA v :
    Run(Enter(v, "transform_downsampled_to_fullstack"), LAMBDA w0 :
    Run(IF w0.brp.ds_fs_save_template
        THEN save_ccf_template_ds_fs(
                 Assign(get_ccf_template_ds_fs(w0), "ccf_template_ds_fs_img"))
        ELSE w0, LAMBDA w1 :
    Run(IF w1.brp.ds_fs_save_annotation
        THEN save_ccf_annotation_ds_fs(
                 Assign(get_ccf_annotation_ds_fs(w1), "ccf_annotation_ds_fs_img"))
        ELSE w1, LAMBDA w2 :
    Exit(w2, "transform_downsampled_to_fullstack")))))

---------------------------------------------------------------------------
(* Construction *)

\* resolve_param_paths, lines 488-497: the parameter maps loaded from the
\* cache where their first file exists
load_parameter_maps(w) ==
    Run(w, LAMBDA w0 :
    Run(Assign(load_pm_files(w0, fs_ds_pm_path), "fs_ds_pm"), LAMBDA w1 :
    Run(Assign(load_pm_files(w1, ds_fs_pm_path), "ds_fs_pm"), LAMBDA w2 :
    Run(Assign(edit_pms_nearest_neighbour(w2, "ds_fs_pm"), "ds_fs_pm_anno"),
        LAMBDA w3 :
    Run(Assign(load_pm_files(w3, ds_ccf_pm_paths(w3)), "ds_ccf_pm"), LAMBDA w4 :
    Run(Assign(load_pm_files(w4, ccf_ds_pm_paths(w4)), "ccf_ds_pm"), LAMBDA w5 :
    Assign(edit_pms_nearest_neighbour(w5, "ccf_ds_pm"), "ccf_ds_pm_anno")))))))

\* resolve_param_paths without the two checks of the lengths
resolve_param_paths_unchecked(w) == load_parameter_maps(w)

\* resolve_param_paths: sys.exit where the transform-params-filenames and
\* the parameters-files of an edge differ in number
resolve_param_paths(w) ==
    Run(w, LAMBDA v :
        IF v.brp.pm_files # v.brp.ds_ccf_parameters_files
        THEN Raise(v, "SystemExit: downsampled-to-ccf lengths")
        ELSE IF v.brp.pm_files # v.brp.ccf_ds_parameters_files
        THEN Raise(v, "SystemExit: ccf-to-downsampled lengths")
        ELSE load_parameter_maps(v))

\* an axis of brp['sample-template-resolution'] is 0.0
ResolutionUnset(resolution) == \E a \in DOMAIN resolution : resolution[a] = 0

\* load_params that does not look at the resolutions
load_params_unchecked(w) ==
    Run(w, LAMBDA v :
        IF ~v.env.yaml
        THEN Raise(v, "SystemExit: no brainregister_params file!")
        ELSE v)

\* load_params: sys.exit where the yaml does not exist, or where an axis
\* of the sample template resolution is 0.0
load_params(w) ==
    Run(w, LAMBDA v :
        IF ~v.env.yaml
        THEN Raise(v, "SystemExit: no brainregister_params file!")
        ELSE IF ResolutionUnset(v.brp.sample_template_resolution)
        THEN Raise(v, "SystemExit: image resolution not set")
        ELSE v)

\* resolve_ccf_params, line 593: get_sample_ccf_scale_factors divides by
\* each axis of the sample template resolution
resolve_ccf_params(w) ==
    Run(w, LAMBDA v :
        IF ResolutionUnset(v.brp.sample_template_resolution)
        THEN Raise(v, "ZeroDivisionError: float division by zero")
        ELSE v)

\* load_params, then resolve_image_paths, resolve_param_paths and
\* resolve_ccf_params: every volume field None, the parameter maps, the
\* scale factors
initialise_brainregister(w) ==
    Run([w EXCEPT !.self = NoSelf, !.log = <<>>], LAMBDA w0 :
    Run(load_params(w0), LAMBDA w1 :
    Run(resolve_param_paths(w1), LAMBDA w2 :
    resolve_ccf_params(w2))))

\* create_output_dirs: mkdir of each output directory that does not exist
create_output_dirs(w) ==
    Run(w, LAMBDA v : [v EXCEPT !.ex = @ \cup Dirs])

\* __init__
BrainRegister(w) ==
    Run(initialise_brainregister(w), LAMBDA w0 : create_output_dirs(w0))

---------------------------------------------------------------------------
(* The pixel reconciler: cast_image, on volumes whose voxels are modelled *)

\* GetPixelIDTypeAsString of the volumes modelled
PixelTypes == {"8-bit signed integer", "8-bit unsigned integer",
               "16-bit signed integer", "16-bit unsigned integer",
               "32-bit unsigned integer", "32-bit float"}

\* a volume with voxels: vox[i] is the value of voxel i in units of 1/Den
Volume(ty, vox) == [ty |-> ty, vox |-> vox]
NoVolume == Volume("None", <<>>)

\* a whole number as a voxel value
Whole(n) == n * Den

\* the least and the largest whole number of a numpy dtype of astype
DtypeMin(dtype) ==
    CASE dtype = "int8" -> -(2 ^ 7)
      [] dtype = "int16" -> -(2 ^ 15)
      [] dtype \in {"uint8", "uint16"} -> 0
DtypeMax(dtype) ==
    CASE dtype = "int8" -> 2 ^ 7 - 1
      [] dtype = "uint8" -> 2 ^ 8 - 1
      [] dtype = "int16" -> 2 ^ 15 - 1
      [] dtype = "uint16" -> 2 ^ 16 - 1

\* the pixel type of sitk.GetImageFromArray of an array of a dtype
PixelTypeOf(dtype) ==
    CASE dtype = "int8" -> "8-bit signed integer"
      [] dtype = "uint8" -> "8-bit unsigned integer"
      [] dtype = "int16" -> "16-bit signed integer"
      [] dtype = "uint16" -> "16-bit unsigned integer"

\* MinimumMaximumImageFilter
Minimum(img) ==
    CHOOSE m \in {img.vox[i] : i \in 1..Len(img.vox)} :
        \A i \in 1..Len(img.vox) : m <= img.vox[i]
Maximum(img) ==
    CHOOSE m \in {img.vox[i] : i \in 1..Len(img.vox)} :
        \A i \in 1..Len(img.vox) : m >= img.vox[i]

\* a[a < lo] = lo, then a[a > hi] = hi, on one voxel
Clamp(v, lo, hi) ==
    IF (IF v < lo THEN lo ELSE v) > hi THEN hi ELSE (IF v < lo THEN lo ELSE v)

\* the whole number a float is converted to: the fraction is dropped
Truncate(v) == IF v >= 0 THEN v \div Den ELSE -((-v) \div Den)

\* how a build converts a float that the dtype cannot hold, which C leaves
\* undefined: modulo the size of the dtype, or to the nearest of its values
Builds == {"wrap", "saturate"}

\* ndarray.astype(dtype) of a float array, on one voxel
astype(v, dtype, build) ==
    LET n == Truncate(v)
        lo == DtypeMin(dtype)
        hi == DtypeMax(dtype)
    IN IF n >= lo /\ n <= hi THEN Whole(n)
       ELSE IF build = "wrap" THEN Whole(lo + ((n - lo) % (hi - lo + 1)))
       ELSE IF n < lo THEN Whole(lo) ELSE Whole(hi)

\* the if / elif chain of cast_image over the pixel type of the original
CastDtype(ty) ==
    IF ty = "16-bit signed integer" THEN "int16"
    ELSE IF ty = "8-bit signed integer" THEN "int8"
    ELSE IF ty = "8-bit unsigned integer" THEN "uint8"
    ELSE IF ty = "16-bit unsigned integer" THEN "uint16"
    ELSE "uint16"

\* cast_image converting before it crops
cast_image_cast_first(sample_template_img, sample_template_ds, build) ==
    Volume(PixelTypeOf(CastDtype(sample_template_img.ty)),
           [i \in 1..Len(sample_template_ds.vox) |->
               Clamp(astype(sample_template_ds.vox[i],
                            CastDtype(sample_template_img.ty), build),
                     Minimum(sample_template_img),
                     Maximum(sample_template_img))])

cast_image(sample_template_img, sample_template_ds, build) ==
    Volume(PixelTypeOf(CastDtype(sample_template_img.ty)),
           [i \in 1..Len(sample_template_ds.vox) |->
               astype(Clamp(sample_template_ds.vox[i],
                            Minimum(sample_template_img),
                            Maximum(sample_template_img)),
                      CastDtype(sample_template_img.ty), build)])

\* transform_image returning what the transform engine returned
transform_image_uncast(template_img, result, build) == result

\* the last lines of transform_image: `result` is what GetResultImage
\* returned for the moving image template_img
transform_image_result(template_img, result, build) ==
    cast_image(template_img, result, build)

---------------------------------------------------------------------------
(* The filter pipeline: class ImageFilterPipeline.  A Python string is a  *)
(* sequence of one-character strings.                                      *)

\* the characters c with c.isupper() / c.isdigit(), the digits in order
UpperChars == {"M", "G", "H", "X"}
DigitChars == <<"0", "1", "2", "3", "4", "5", "6", "7", "8", "9">>

RECURSIVE split(_, _)
\* str.split(sep): the pieces of str between the separators, in order
split(str, sep) ==
    IF \A i \in 1..Len(str) : str[i] # sep THEN <<str>>
    ELSE LET k == CHOOSE i \in 1..Len(str) :
                      str[i] = sep /\ \A j \in 1..(i - 1) : str[j] # sep
         IN <<SubSeq(str, 1, k - 1)>> \o split(SubSeq(str, k + 1, Len(str)), sep)

\* s.isdigit()
isdigit(s) ==
    s # <<>> /\ \A i \in 1..Len(s) : \E d \in 1..Len(DigitChars) : s[i] = DigitChars[d]

RECURSIVE int(_)
\* int(s) of a string of digits
int(s) ==
    IF s = <<>> THEN 0
    ELSE Len(DigitChars) * int(SubSeq(s, 1, Len(s) - 1))
         + (CHOOSE d \in 1..Len(DigitChars) : s[Len(s)] = DigitChars[d]) - 1

\* the filter code read as the first upper-case character of the clause
filter_code_first_letter(f) ==
    SubSeq(SelectSeq(f, LAMBDA c : c \in UpperChars), 1, 1)

\* ''.join([c for c in f if c.isupper()])
filter_code(f) == SelectSeq(f, LAMBDA c : c \in UpperChars)

\* tuple([int(s) for s in f.split(',') if s.isdigit()])
filter_kernel(f) ==
    LET digits == SelectSeq(split(f, ","), isdigit)
    IN [i \in 1..Len(digits) |-> int(digits[i])]

\* the body of the loop of __init__ for the clause f: the filters it
\* appends to img_filter (with img_filter_name and img_filter_kernel)
Clause(f) ==
    LET flt(class, name) ==
            << [flt |-> class, name |-> name, kernel |-> filter_kernel(f)] >>
    IN IF filter_code(f) = <<"M">> THEN flt("MedianImageFilter", "Median")
       ELSE IF filter_code(f) = <<"G">>
       THEN flt("SmoothingRecursiveGaussianImageFilter", "Gaussian")
       ELSE IF filter_code(f) = <<"G", "H">>
       THEN flt("SmoothingRecursiveGaussianImageFilter", "Gaussian-High-Pass")
       ELSE <<>>

RECURSIVE Clauses(_, _)
\* the loop of __init__ over filter_list, from its i-th clause on
Clauses(filter_list, i) ==
    IF i > Len(filter_list) THEN <<>>
    ELSE Clause(filter_list[i]) \o Clauses(filter_list, i + 1)

\* ImageFilterPipeline(filter_string): the pipeline object, or the
\* exception of the first setter that rejects its kernel.  The imaging
\* library is not part of this repository: lib says whether its SetRadius,
\* SetSigma and Execute take ("lenient") or reject ("strict") a kernel that
\* is not one number per axis of a volume.
ImageFilterPipeline(filter_string, lib) ==
    LET img_filter == Clauses(split(filter_string, "-"), 1)
    IN IF \A i \in 1..Len(img_filter) :
             lib = "lenient" \/ Len(img_filter[i].kernel) \in 1..3
       THEN [err |-> "none", img_filter |-> img_filter]
       ELSE [err |-> "TypeError: in method 'SetRadius'", img_filter |-> <<>>]

\* f.Execute(img)
Execute(f, img) ==
    [img EXCEPT !.ops = Append(@, [k |-> f.flt, a |-> f.name, o |-> f.kernel])]

\* execute_pipeline handing every filter the image that was set
execute_pipeline_unchained(img_filter, i, img) ==
    IF img_filter = <<>> THEN img
    ELSE Execute(img_filter[Len(img_filter)], img)

RECURSIVE execute_pipeline(_, _, _)
\* execute_pipeline: the loop from the i-th filter on, img the image so far
execute_pipeline(img_filter, i, img) ==
    IF i > Len(img_filter) THEN img
    ELSE execute_pipeline(img_filter, i + 1, Execute(img_filter[i], img))

---------------------------------------------------------------------------
(* The scale-factor calculator.  A scale factor, and an entry of a        *)
(* parameter map written with "{:.6f}", is a whole number of units of     *)
(* 10^-RoundDigits; the axes x, y, z are 1, 2, 3.                          *)

Unit == 10 ^ RoundDigits

\* round(n / d) of Python, for n >= 0 and d > 0: the nearest whole number.
\* Where two are equally near, the floating-point value that stands for
\* n / d decides, and may lie on either side: up says on which.
round(n, d, up) ==
    LET q == n \div d
        r == n % d
    IN IF 2 * r < d THEN q
       ELSE IF 2 * r > d THEN q + 1
       ELSE IF up THEN q + 1 ELSE q

\* get_sample_ccf_scale_factors with the two ratios the other way round
get_sample_ccf_scale_factors_swapped(sample, ccf, up) ==
    [s2c |-> [key \in DOMAIN ccf |-> round(ccf[key] * Unit, sample[key], up)],
     c2s |-> [key \in DOMAIN sample |-> round(sample[key] * Unit, ccf[key], up)]]

\* get_sample_ccf_scale_factors: sample and ccf are the resolutions
\* brp['sample-template-resolution'] and ccfp['ccf-template-resolution']
get_sample_ccf_scale_factors(sample, ccf, up) ==
    [s2c |-> [key \in DOMAIN sample |-> round(sample[key] * Unit, ccf[key], up)],
     c2s |-> [key \in DOMAIN ccf |-> round(ccf[key] * Unit, sample[key], up)]]

\* the TransformParameters tuple of a scaling map with diagonal f
Diagonal(f) == <<f[1], 0, 0, 0, f[2], 0, 0, 0, f[3], 0, 0, 0>>

\* get_fs_ds_scaling with s2c on the diagonal
fs_ds_scaling_s2c(size, s2c, c2s, up) ==
    [TransformParameters |-> Diagonal(s2c),
     Size |-> [a \in 1..3 |-> round(size[a] * s2c[a], Unit, up) * Unit]]

\* get_fs_ds_scaling: the entries of 00_scaling.txt it edits; size is
\* GetWidth, GetHeight, GetDepth of self.template_img
fs_ds_scaling(size, s2c, c2s, up) ==
    [TransformParameters |-> Diagonal(c2s),
     Size |-> [a \in 1..3 |-> round(size[a] * s2c[a], Unit, up) * Unit]]

\* get_ds_fs_scaling sizing the grid from the size of the downsampled
\* template and c2s
ds_fs_scaling_from_ds(size, s2c, c2s, up) ==
    [TransformParameters |-> Diagonal(s2c),
     Size |-> [a \in 1..3 |->
                  round(round(size[a] * s2c[a], Unit, up) * c2s[a], Unit, up)
                  * Unit]]

\* get_ds_fs_scaling: the entries of 00_scaling.txt it edits
ds_fs_scaling(size, s2c, c2s, up) ==
    [TransformParameters |-> Diagonal(s2c),
     Size |-> [a \in 1..3 |-> round(size[a], 1, up) * Unit]]

---------------------------------------------------------------------------
(* The state machine *)

\* the world the next method call starts in
World == [brp |-> brp, ex |-> ex, data |-> data, cwd |-> cwd, self |-> self,
          log |-> log, err |-> "none", ret |-> NoImg, env |-> env]

Commit(w) ==
    /\ ex' = w.ex
    /\ data' = w.data
    /\ cwd' = w.cwd
    /\ self' = w.self
    /\ log' = w.log
    /\ err' = w.err
    /\ phase' = IF Ok(w) THEN "ready" ELSE "failed"
    /\ UNCHANGED <<brp, env>>

NoData == [f \in Files |-> IF f \in PmFiles THEN NoMap ELSE NoImg]

\* no pixel reconciliation was asked for
NoPx == [orig |-> NoVolume, raw |-> NoVolume, out |-> NoVolume]

\* the field img of a pipeline object before set_image has set it
Unset == Img("unset", 0)

\* no filter pipeline was asked for
NoFp == [clauses |-> <<>>, str |-> <<>>, lib |-> "lenient", made |-> FALSE,
         err |-> "none", img_filter |-> <<>>, img |-> Unset, ran |-> NoImg,
         filtered_img |-> NoImg]

\* a parameter map that has not been computed
NoScaling == [TransformParameters |-> <<>>, Size |-> <<>>]

\* no scale computation was asked for.  run counts the orchestrators over
\* the cache; fs_ds_run and ds_fs_run are the runs that generated the two
\* scale parameter files (history)
NoSc == [sample |-> <<>>, ccf |-> <<>>, size |-> <<>>, run |-> 0,
         s2c |-> <<>>, c2s |-> <<>>,
         fs_ds_pm |-> NoScaling, ds_fs_pm |-> NoScaling,
         fs_ds_run |-> 0, ds_fs_run |-> 0]

\* the components at rest
NoComponents ==
    /\ px = NoPx
    /\ fp = NoFp
    /\ sc = NoSc

\* the engine does not fail and the process is not interrupted.  fails is
\* the edge whose registration the engine fails at, after the number of
\* TransformParameters files it has written by then, kill the write of
\* the process at which it is interrupted (0: none)
NoEnv == [fails |-> "none", after |-> 0, kill |-> 0, yaml |-> TRUE]

\* an empty cache and no orchestrator, for the configuration b, where f
\* befalls the process
NoOrchestratorUnder(b, f) ==
    /\ brp = b
    /\ ex = {}
    /\ data = NoData
    /\ cwd = <<>>
    /\ self = NoSelf
    /\ phase = "none"
    /\ pc = 0
    /\ calls = 0
    /\ log = <<>>
    /\ err = "none"
    /\ kind = "empty"
    /\ base = "empty"
    /\ ex0 = {}
    /\ data0 = NoData
    /\ env = f

\* an empty cache and no orchestrator, for the configuration b
NoOrchestrator(b) == NoOrchestratorUnder(b, NoEnv)

Init ==
    /\ \E b \in Configs : NoOrchestrator(b)
    /\ NoComponents

\* BrainRegister(yaml_path): a new orchestrator over the cache as it is;
\* the process of the previous one, if any, has ended
Construct ==
    /\ pc \notin 1..6 \/ phase = "failed"
    /\ \E w \in {BrainRegister(World)} : Commit(w)
    /\ pc' = 0
    /\ calls' = 0
    /\ base' = kind
    /\ ex0' = ex
    /\ data0' = data
    /\ UNCHANGED <<kind, components>>

StageNames == <<"register_transform_fullstack_to_downsampled",
                "register_downsampled_to_ccf",
                "transform_downsampled_to_ccf",
                "register_ccf_to_downsampled",
                "transform_ccf_to_downsampled",
                "transform_downsampled_to_fullstack">>

\* the stage method of the given name
StageMethod(name, w) ==
    CASE name = "register_transform_fullstack_to_downsampled" ->
             register_transform_fullstack_to_downsampled(w)
      [] name = "register_downsampled_to_ccf" -> register_downsampled_to_ccf(w)
      [] name = "transform_downsampled_to_ccf" -> transform_downsampled_to_ccf(w)
      [] name = "register_ccf_to_downsampled" -> register_ccf_to_downsampled(w)
      [] name = "transform_ccf_to_downsampled" -> transform_ccf_to_downsampled(w)
      [] name = "transform_downsampled_to_fullstack" ->
             transform_downsampled_to_fullstack(w)

\* register() calling the first registration before the scale resolution
register_swapped(k) == StageNames[IF k = 1 THEN 2 ELSE IF k = 2 THEN 1 ELSE k]

\* register(): the k-th method it calls
register(k) == StageNames[k]

\* register() is called on an orchestrator nothing else was called on
RegisterCall ==
    /\ phase = "ready" /\ pc = 0 /\ calls = 0
    /\ pc' = 1
    /\ log' = Append(log, [op |-> "enter", key |-> <<"register", 0>>,
                           img |-> NoImg, img2 |-> NoImg, pm |-> NoPm, ex |-> ex])
    /\ UNCHANGED <<brp, ex, data, cwd, self, phase, calls, err, kind, base,
                   ex0, data0, env, components>>

\* register() runs its next stage; an exception leaves pc at that stage
RegisterStep ==
    /\ phase = "ready" /\ pc \in 1..6
    /\ \E w \in {StageMethod(register(pc), World)} :
          /\ Commit(w)
          /\ pc' = IF Ok(w) THEN pc + 1 ELSE pc
          /\ kind' = IF Ok(w) /\ pc = 6 THEN "complete" ELSE "other"
    /\ UNCHANGED <<calls, base, ex0, data0, components>>

\* a stage method is called on its own
StageCall(name) ==
    /\ phase = "ready" /\ pc = 0 /\ calls < MaxCalls
    /\ \E w \in {StageMethod(name, World)} : Commit(w)
    /\ calls' = calls + 1
    /\ kind' = "other"
    /\ UNCHANGED <<pc, base, ex0, data0, components>>

\* between two runs, someone deletes parameter files of CCF -> downsampled
\* from the cache of a completed run
DeleteCcfDsPm(gone) ==
    /\ phase = "ready" /\ pc = 7 /\ kind = "complete"
    /\ gone # {} /\ gone \subseteq ex
    /\ ex' = ex \ gone
    /\ data' = [f \in Files |-> IF f \in gone THEN NoMap ELSE data[f]]
    /\ phase' = "none"
    /\ kind' = "deleted"
    /\ UNCHANGED <<brp, cwd, self, pc, calls, log, err, base, ex0, data0,
                   env, components>>

Next ==
    \/ Construct
    \/ RegisterCall
    \/ RegisterStep
    \/ \E k \in 1..6 : StageCall(StageNames[k])
    \/ \E gone \in SUBSET ({"ccf_ds_pm"} \X PmIdx) : DeleteCcfDsPm(gone)

Spec == Init /\ [][Next]_vars

---------------------------------------------------------------------------
(* The orchestrator where the engine fails or the process is interrupted *)

\* the configurations run under a fault: every switch on, or one off
FaultConfigs ==
    {Yaml(off, n) : off \in {{}} \cup {{k} : k \in Flags \cup Prefilters},
                    n \in PmIdx}

\* the faults: the engine fails at one edge, having written some of its
\* TransformParameters files, or the process is interrupted at one write
Faults ==
    {[NoEnv EXCEPT !.fails = e, !.after = k] :
        e \in {"ds_ccf_pm", "ccf_ds_pm"}, k \in 0..(MaxPm - 1)}
    \cup {[NoEnv EXCEPT !.kill = n] : n \in 1..MaxKill}

InitFault ==
    /\ \E b \in FaultConfigs, f \in Faults :
          f.after < b.pm_files /\ NoOrchestratorUnder(b, f)
    /\ NoComponents

\* what made the process fail is over: the next process meets no fault
FaultPasses ==
    /\ phase = "failed" /\ env # NoEnv
    /\ env' = NoEnv
    /\ UNCHANGED <<brp, ex, data, cwd, self, phase, pc, calls, log, err, kind,
                   base, ex0, data0, components>>

\* a fault befalls one process: the process after it is constructed once
\* the fault has passed
NextFault ==
    \/ (phase = "failed" => env = NoEnv) /\ Construct
    \/ RegisterCall
    \/ RegisterStep
    \/ \E k \in 1..6 : StageCall(StageNames[k])
    \/ FaultPasses

SpecFault == InitFault /\ [][NextFault]_vars

---------------------------------------------------------------------------
(* The orchestrator whose caller catches the engine's exception *)

\* the stage method the process entered last
LastStage ==
    LET i == CHOOSE k \in DOMAIN log :
                 /\ log[k].op = "enter" /\ log[k].key[1] # "register"
                 /\ \A j \in DOMAIN log :
                       (log[j].op = "enter" /\ log[j].key[1] # "register")
                           => j <= k
    IN log[i].key[1]

\* a stage method called on its own raised the engine's exception; its
\* caller catches it and, the engine's trouble over, calls the method again
\* on the same orchestrator
Retry ==
    /\ phase = "failed" /\ err = "RuntimeError: elastix failed"
    /\ env = NoEnv /\ pc = 0 /\ calls <= MaxCalls
    /\ \E w \in {StageMethod(LastStage, World)} : Commit(w)
    /\ calls' = MaxCalls + 1
    /\ kind' = "other"
    /\ UNCHANGED <<pc, base, ex0, data0, components>>

NextRetry ==
    \/ NextFault
    \/ Retry

SpecRetry == InitFault /\ [][NextRetry]_vars

---------------------------------------------------------------------------
(* The orchestrator where the yaml is edited after a fault *)

\* after a process failed, and before the next one is constructed, the
\* user shortens the lists of parameter files of the yaml by one file: the
\* next construction reads the yaml as it then is.  The failed process is
\* gone, and with it the history of what it did under the yaml it had read.
Reconfigure ==
    /\ phase = "failed" /\ env = NoEnv
    /\ brp.pm_files > 1
    /\ brp' = [brp EXCEPT !.pm_files = @ - 1,
                          !.ds_ccf_parameters_files = @ - 1,
                          !.ccf_ds_parameters_files = @ - 1]
    /\ log' = <<>>
    /\ UNCHANGED <<ex, data, cwd, self, phase, pc, calls, err, kind,
                   base, ex0, data0, env, components>>

\* the configurations run here: every switch on, or one prefilter off
StaleConfigs == {Yaml(off, n) : off \in {{}} \cup {{k} : k \in Prefilters},
                                n \in PmIdx}

InitStale ==
    /\ \E b \in StaleConfigs, f \in Faults :
          f.after < b.pm_files /\ NoOrchestratorUnder(b, f)
    /\ NoComponents

NextStale ==
    \/ NextFault
    \/ Reconfigure

SpecStale == InitStale /\ [][NextStale]_vars

---------------------------------------------------------------------------
(* save_pm_files over the files two registrations left *)

\* the parameter templates of a registration of an edge with n files
TemplatesOf(edge, n) == [i \in 1..n |-> [edge |-> edge, i |-> i]]

\* a registration DS -> CCF with s parameter files was interrupted between
\* Execute and save_pm_files (s = 0: there was none); the yaml now has n
\* parameter files for each edge, and over the cache, in the same working
\* directory, register_ccf_to_downsampled has got as far as the return of
\* register_image
AfterEngine(s, n) ==
    register_image([brp |-> Yaml({}, n), ex |-> Dirs,
                    data |-> [f \in Files \cup ({"ccf_ds_pm"} \X (1..MaxNames))
                                 |-> IF f \in VolFiles THEN NoImg ELSE NoMap],
                    cwd |-> ElastixOutput(Img("template", 0),
                                          Img("ccf_template", 0),
                                          TemplatesOf("ds_ccf_pm", s)),
                    self |-> NoSelf, log |-> <<>>, err |-> "none",
                    ret |-> NoImg, env |-> NoEnv],
                   Img("ccf_template", 0), Img("template", 0),
                   TemplatesOf("ccf_ds_pm", n))

InitSort ==
    /\ \E s \in 0..MaxNames, n \in 1..MaxNames :
          \E w \in {AfterEngine(s, n)} :
             /\ brp = w.brp
             /\ ex = w.ex /\ data = w.data /\ cwd = w.cwd
             /\ self = w.self
             /\ log = w.log /\ err = w.err
             /\ ex0 = w.ex /\ data0 = w.data
    /\ phase = "ready" /\ pc = 0 /\ calls = 0
    /\ kind = "other" /\ base = "other"
    /\ env = NoEnv
    /\ NoComponents

\* line 1360: self.save_pm_files( self.ccf_ds_pm_paths )
SaveParameters ==
    /\ phase = "ready" /\ Len(log) = 1
    /\ \E w \in {save_pm_files(World, ccf_ds_pm_paths(World))} : Commit(w)
    /\ UNCHANGED <<pc, calls, kind, base, ex0, data0, components>>

NextSort == SaveParameters

SpecSort == InitSort /\ [][NextSort]_vars

---------------------------------------------------------------------------
(* The two registrations run at the same time *)

Registrations == {"register_downsampled_to_ccf", "register_ccf_to_downsampled"}

\* the edge a registration stage registers, and its paths
EdgeOfStage(name) ==
    IF name = "register_downsampled_to_ccf" THEN "ds_ccf_pm" ELSE "ccf_ds_pm"

PathsOfStage(w, name) ==
    IF name = "register_downsampled_to_ccf"
    THEN ds_ccf_pm_paths(w) ELSE ccf_ds_pm_paths(w)

\* a registration stage from its entry to the return of the engine
UpToEngine(name, w) ==
    Run(Enter(w, name), LAMBDA w0 :
        IF name = "register_downsampled_to_ccf"
        THEN (IF ~ds_ccf_pm_files_exist(w0)
              THEN ds_ccf_registration(w0) ELSE w0)
        ELSE (IF ~ccf_ds_pm_files_exist(w0)
              THEN ccf_ds_registration(w0) ELSE w0))

\* the cache a process leaves that ran the scale resolution for b
TemplateReady(b) ==
    register_transform_fullstack_to_downsampled(
        BrainRegister([brp |-> b, ex |-> {}, data |-> NoData, cwd |-> <<>>,
                       self |-> NoSelf, log |-> <<>>, err |-> "none",
                       ret |-> NoImg, env |-> NoEnv]))

\* an orchestrator newly constructed over that cache
OverTemplate(b) ==
    BrainRegister([TemplateReady(b) EXCEPT !.self = NoSelf, !.log = <<>>])

\* two orchestrators were constructed over the cache, in one working
\* directory, one to run each registration: self is the orchestrator each
\* of them starts as, and the log is what the two do, in the order they do it
InitInterleave ==
    /\ \E b \in FaultConfigs :
          \E w \in {OverTemplate(b)} :
             /\ brp = b
             /\ ex = w.ex /\ data = w.data /\ cwd = w.cwd
             /\ self = w.self
             /\ log = <<>> /\ err = w.err
             /\ ex0 = w.ex /\ data0 = w.data
    /\ phase = "ready" /\ pc = 0 /\ calls = 0
    /\ kind = "other" /\ base = "other"
    /\ env = NoEnv
    /\ NoComponents

StageEntered(name) ==
    \E i \in DOMAIN log : log[i].op = "enter" /\ log[i].key[1] = name

StageReturned(name) ==
    \E i \in DOMAIN log : log[i].op = "exit" /\ log[i].key[1] = name

\* what one of the two orchestrators does to the file system they share
Shares(w) ==
    /\ ex' = w.ex
    /\ data' = w.data
    /\ cwd' = w.cwd
    /\ log' = w.log
    /\ err' = w.err
    /\ phase' = IF Ok(w) THEN "ready" ELSE "failed"
    /\ UNCHANGED <<brp, self, pc, calls, kind, base, ex0, data0, env,
                   components>>

\* the orchestrator of a registration runs it up to the return of the engine
EngineStep(name) ==
    /\ phase = "ready" /\ ~StageEntered(name)
    /\ \E w \in {UpToEngine(name, World)} : Shares(w)

\* it goes on to save_pm_files, and the stage returns
SaveStep(name) ==
    /\ phase = "ready" /\ StageEntered(name) /\ ~StageReturned(name)
    /\ \E w \in {Exit(save_pm_files(World, PathsOfStage(World, name)), name)} :
          Shares(w)

NextInterleave ==
    \/ \E name \in Registrations : EngineStep(name)
    \/ \E name \in Registrations : SaveStep(name)

SpecInterleave == InitInterleave /\ [][NextInterleave]_vars

---------------------------------------------------------------------------
(* The pixel reconciler on its own *)

\* whole voxel values of the volumes handed to the transform engine
WholeSamples == {-3, 0, 100, 4095, 70000}

\* the voxel values among the samples that a pixel type can hold
Representable(ty) ==
    IF ty = "32-bit float"
    THEN {Whole(n) : n \in WholeSamples} \cup {1}
    ELSE IF ty = "32-bit unsigned integer"
    THEN {Whole(n) : n \in {m \in WholeSamples : m >= 0}}
    ELSE {Whole(n) : n \in {m \in WholeSamples :
             \E d \in {"int8", "uint8", "int16", "uint16"} :
                 /\ PixelTypeOf(d) = ty
                 /\ m >= DtypeMin(d) /\ m <= DtypeMax(d)}}

\* the volumes of at most MaxVoxels voxels with values in S
Volumes(ty, S) ==
    {Volume(ty, vox) : vox \in UNION {[1..n -> S] : n \in 1..MaxVoxels}}

\* the volumes read from an input file or from the cache
Originals == UNION {Volumes(ty, Representable(ty)) : ty \in PixelTypes}

\* what the transform engine may return: 32-bit float, with values inside
\* and outside the range of the moving image, whole and not
EngineResults ==
    Volumes("32-bit float",
            {Whole(-3), Whole(100) + 1, Whole(5000), Whole(70000)})

InitReconcile ==
    /\ NoOrchestrator(Yaml({}, 1))
    /\ px \in {[NoPx EXCEPT !.orig = o] : o \in Originals}
    /\ fp = NoFp
    /\ sc = NoSc

\* transform_image(template_img, pm_list), from GetResultImage on
TransformImage ==
    /\ px.out = NoVolume
    /\ \E result \in EngineResults, build \in Builds :
          px' = [px EXCEPT !.raw = result,
                           !.out = transform_image_result(px.orig, result, build)]
    /\ UNCHANGED <<orchestrator, fp, sc>>

SpecReconcile == InitReconcile /\ [][TransformImage]_vars

---------------------------------------------------------------------------
(* The filter pipeline on its own *)

\* the codes and the kernels the clauses of a filter spec are made of; a
\* kernel is its tokens, each with the integer it stands for (-1: none)
Token(txt, n) == [txt |-> txt, n |-> n]
SampleCodes == {<<"M">>, <<"G">>, <<"G", "H">>, <<"X">>}
SampleKernels ==
    {<<>>,
     <<Token(<<"2">>, 2), Token(<<"2">>, 2), Token(<<"1">>, 1)>>,
     <<Token(<<"5">>, 5), Token(<<"5">>, 5), Token(<<"2">>, 2)>>,
     <<Token(<<"1">>, 1), Token(<<"1">>, 1), Token(<<"1">>, 1)>>,
     <<Token(<<"1", "0">>, 10)>>,
     <<Token(<<"x">>, -1), Token(<<"2">>, 2)>>,
     <<Token(<<"1">>, 1), Token(<<"2">>, 2), Token(<<"3">>, 3), Token(<<"4">>, 4)>>}

\* the filter specs of at most MaxClauses clauses
SampleSpecs ==
    UNION {[1..n -> [code : SampleCodes, kernel : SampleKernels]] :
              n \in 1..MaxClauses}

RECURSIVE Joined(_, _)
\* sep.join(parts)
Joined(parts, sep) ==
    IF parts = <<>> THEN <<>>
    ELSE IF Len(parts) = 1 THEN parts[1]
    ELSE parts[1] \o <<sep>> \o Joined(Tail(parts), sep)

\* the string a filter spec is written as, such as "M,2,2,1-GH,5,5,2"
Written(clauses) ==
    Joined([i \in 1..Len(clauses) |->
               Joined(<<clauses[i].code>> \o
                      [t \in 1..Len(clauses[i].kernel) |->
                          clauses[i].kernel[t].txt], ",")], "-")

InitFilter ==
    /\ NoOrchestrator(Yaml({}, 1))
    /\ px = NoPx
    /\ sc = NoSc
    /\ fp \in {[NoFp EXCEPT !.clauses = c, !.str = Written(c), !.lib = l] :
                  c \in SampleSpecs, l \in {"lenient", "strict"}}

\* ImageFilterPipeline(filter_string)
NewPipeline ==
    /\ ~fp.made
    /\ fp' = [fp EXCEPT !.made = TRUE,
                        !.err = ImageFilterPipeline(fp.str, fp.lib).err,
                        !.img_filter = ImageFilterPipeline(fp.str, fp.lib).img_filter]
    /\ UNCHANGED <<orchestrator, px, sc>>

\* set_image(img)
SetImage(img) ==
    /\ fp.made /\ fp.err = "none"
    /\ fp' = [fp EXCEPT !.img = img]
    /\ UNCHANGED <<orchestrator, px, sc>>

\* execute_pipeline(): a filter that cannot run its kernel, or is handed
\* None, raises
ExecutePipeline ==
    /\ fp.made /\ fp.err = "none"
    /\ fp' = IF fp.img = Unset
             THEN [fp EXCEPT !.err = "AttributeError: no attribute 'img'"]
             ELSE IF fp.img_filter # <<>> /\ fp.img = NoImg
             THEN [fp EXCEPT !.err = "TypeError: Execute(None)"]
             ELSE IF \E i \in 1..Len(fp.img_filter) :
                        fp.lib = "strict" /\ Len(fp.img_filter[i].kernel) # 3
             THEN [fp EXCEPT !.err = "RuntimeError: Exception thrown in SimpleITK Execute"]
             ELSE [fp EXCEPT !.ran = fp.img,
                             !.filtered_img = execute_pipeline(fp.img_filter, 1, fp.img)]
    /\ UNCHANGED <<orchestrator, px, sc>>

\* dereference_image()
DereferenceImage ==
    /\ fp.made /\ fp.err = "none"
    /\ fp' = [fp EXCEPT !.img = NoImg]
    /\ UNCHANGED <<orchestrator, px, sc>>

NextFilter ==
    \/ NewPipeline
    \/ \E img \in {Img("template", 0), Img("ccf_template", 0)} : SetImage(img)
    \/ ExecutePipeline
    \/ DereferenceImage

SpecFilter == InitFilter /\ [][NextFilter]_vars

---------------------------------------------------------------------------
(* The scale-factor calculator on its own *)

\* resolutions of the sample template and of the CCF template, in one
\* unit of length, and sizes of the sample template in voxels
SampleResolutions == {1, 3, 7}
CcfResolutions == {10, 25}
SampleSizes == {<<500, 500, 500>>, <<510, 15, 500>>, <<15, 510, 15>>,
                <<25, 35, 45>>}

InitScale ==
    /\ NoOrchestrator(Yaml({}, 1))
    /\ px = NoPx
    /\ fp = NoFp
    /\ sc \in {[NoSc EXCEPT !.sample = s, !.ccf = c, !.size = z, !.run = 1] :
                  s \in [1..3 -> SampleResolutions],
                  c \in [1..3 -> CcfResolutions], z \in SampleSizes}

\* resolve_ccf_params: self.s2c, self.c2s = get_sample_ccf_scale_factors()
ScaleFactors ==
    /\ sc.s2c = <<>>
    /\ \E up \in BOOLEAN :
          sc' = [sc EXCEPT
                    !.s2c = get_sample_ccf_scale_factors(sc.sample, sc.ccf, up).s2c,
                    !.c2s = get_sample_ccf_scale_factors(sc.sample, sc.ccf, up).c2s]
    /\ UNCHANGED <<orchestrator, px, fp>>

\* generate_scaling_param_files_fs_ds, the fullstack -> downsampled file
\* missing: get_fs_ds_scaling, save_fs_ds_tp_file
FsDsScaling ==
    /\ sc.s2c # <<>> /\ sc.fs_ds_pm = NoScaling
    /\ \E up \in BOOLEAN :
          sc' = [sc EXCEPT !.fs_ds_pm = fs_ds_scaling(sc.size, sc.s2c, sc.c2s, up),
                          !.fs_ds_run = sc.run]
    /\ UNCHANGED <<orchestrator, px, fp>>

\* generate_scaling_param_files_fs_ds, the downsampled -> fullstack file
\* missing: get_ds_fs_scaling, save_ds_fs_tp_file
DsFsScaling ==
    /\ sc.s2c # <<>> /\ sc.ds_fs_pm = NoScaling
    /\ \E up \in BOOLEAN :
          sc' = [sc EXCEPT !.ds_fs_pm = ds_fs_scaling(sc.size, sc.s2c, sc.c2s, up),
                          !.ds_fs_run = sc.run]
    /\ UNCHANGED <<orchestrator, px, fp>>

\* the process ends and a new orchestrator is constructed over the cache
NewRun ==
    /\ sc.run < MaxRuns
    /\ sc' = [sc EXCEPT !.run = sc.run + 1, !.s2c = <<>>, !.c2s = <<>>]
    /\ UNCHANGED <<orchestrator, px, fp>>

NextScale ==
    \/ ScaleFactors
    \/ FsDsScaling
    \/ DsFsScaling
    \/ NewRun

SpecScale == InitScale /\ [][NextScale]_vars

---------------------------------------------------------------------------
(* The construction over a yaml that may be missing, or not filled in *)

\* values of an axis of the sample template resolution; 0 is the 0.0 the
\* yaml template is written with
AxisResolutions == {0, 1, 3}

\* no orchestrator yet; the yaml is there or not, and its
\* sample-template-resolution is r
InitConstruct ==
    /\ \E n \in PmIdx, r \in [1..3 -> AxisResolutions], y \in BOOLEAN :
          /\ NoOrchestratorUnder(
                 [Yaml({}, n) EXCEPT !.sample_template_resolution = r],
                 [NoEnv EXCEPT !.yaml = y])
          /\ sc \in {[NoSc EXCEPT !.sample = r, !.ccf = c, !.run = 1] :
                        c \in [1..3 -> CcfResolutions]}
    /\ px = NoPx
    /\ fp = NoFp

\* __init__, with the scale factors that resolve_ccf_params computes where
\* the construction gets to it
ConstructScaled ==
    /\ phase = "none"
    /\ \E w \in {BrainRegister(World)} :
          /\ Commit(w)
          /\ \E up \in BOOLEAN :
                sc' = IF Ok(w)
                      THEN [sc EXCEPT
                              !.s2c = get_sample_ccf_scale_factors(
                                          sc.sample, sc.ccf, up).s2c,
                              !.c2s = get_sample_ccf_scale_factors(
                                          sc.sample, sc.ccf, up).c2s]
                      ELSE sc
    /\ pc' = 0
    /\ calls' = 0
    /\ base' = kind
    /\ ex0' = ex
    /\ data0' = data
    /\ UNCHANGED <<kind, px, fp>>

NextConstruct ==
    \/ ConstructScaled
    \/ RegisterCall
    \/ RegisterStep
    \/ \E k \in 1..6 : StageCall(StageNames[k])

SpecConstruct == InitConstruct /\ [][NextConstruct]_vars

---------------------------------------------------------------------------
(* Reading the log *)

Events == 1..Len(log)

\* the last event of the method call that event i opens: the first later
\* `closing` event of the same key, or the end of the log when an exception
\* ended the call (and with it the orchestrator)
SegmentEnd(i, closing) ==
    LET later == {j \in (i + 1)..Len(log) :
                     log[j].op = closing /\ log[j].key = log[i].key}
    IN IF later = {} THEN Len(log)
       ELSE CHOOSE j \in later : \A k \in later : j <= k

\* the events of the method call that event i opens
Within(i, closing) == (i + 1)..SegmentEnd(i, closing)

\* the method call that event i opens came back without an exception
Returned(i, closing) ==
    \E j \in Within(i, closing) : log[j].op = closing /\ log[j].key = log[i].key

\* the configured parameter files of an edge
EdgePaths(edge) ==
    IF edge \in {"fs_ds_pm", "ds_fs_pm"} THEN {<<edge, 1>>}
    ELSE {<<edge, i>> : i \in 1..brp.pm_files}

\* the edges a resolution step resolves
EdgesOf(step) ==
    IF step = "generate_scaling_param_files_fs_ds" THEN {"fs_ds_pm", "ds_fs_pm"}
    ELSE IF step = "register_downsampled_to_ccf" THEN {"ds_ccf_pm"}
    ELSE IF step = "register_ccf_to_downsampled" THEN {"ccf_ds_pm"}
    ELSE {}

ResolutionSteps == {"generate_scaling_param_files_fs_ds",
                    "register_downsampled_to_ccf",
                    "register_ccf_to_downsampled"}

\* the output path of the artifact a getter produces
OutputOf(key) ==
    CASE key[1] = "get_template_ds" -> template_path_ds
      [] key[1] = "get_ds_template_ccf" -> template_path_ds_ccf
      [] key[1] = "get_ds_image_ccf" -> sample_images_ds_ccf(key[2])
      [] key[1] = "get_ccf_template_ds" -> ccf_template_path_ds
      [] key[1] = "get_ccf_annotation_ds" -> ccf_annotation_path_ds
      [] key[1] = "get_ccf_template_ds_fs" -> ccf_template_path_ds_fs
      [] key[1] = "get_ccf_annotation_ds_fs" -> ccf_annotation_path_ds_fs

\* the yaml switch that asks for an output artifact to be saved
SaveFlag(path) ==
    CASE path[1] = "template_ds" -> "fs_ds_save_template"
      [] path[1] = "image_ds" -> "fs_ds_save_images"
      [] path[1] = "template_ds_ccf" -> "ds_ccf_save_template"
      [] path[1] = "image_ds_ccf" -> "ds_ccf_save_images"
      [] path[1] = "ccf_template_ds" -> "ccf_ds_save_template"
      [] path[1] = "ccf_annotation_ds" -> "ccf_ds_save_annotation"
      [] path[1] = "ccf_template_ds_fs" -> "ds_fs_save_template"
      [] path[1] = "ccf_annotation_ds_fs" -> "ds_fs_save_annotation"

\* the stage entries and exits of the log, in order
StageEvents ==
    SelectSeq(log, LAMBDA e : /\ e.op \in {"enter", "exit"}
                              /\ \E k \in 1..6 : e.key[1] = StageNames[k])

EngineCalls == {i \in Events : log[i].op = "elastix"}

---------------------------------------------------------------------------
(* The claims *)

\* C1 (idempotence): once a full register() run has completed, a second
\* full register() run by a freshly constructed orchestrator over the same
\* cache does not fail, never invokes the registration engine, and leaves
\* every parameter-map file and every output volume file as the first run
\* left it.
C1_Idempotent ==
    (base = "complete" /\ pc >= 1 /\ phase # "none") =>
        /\ phase # "failed"
        /\ EngineCalls = {}
        /\ ex = ex0
        /\ data = data0

\* C2 (resumability): over the cache of a completed run from which only
\* CCF -> downsampled parameter files were deleted, a new orchestrator is
\* constructed and its register() run does not fail, invokes the
\* registration engine for CCF -> downsampled only, never rewrites a scale
\* parameter file, and has, when it returns, invoked the engine exactly
\* once and recreated the deleted files.
C2_Resumable ==
    (base = "deleted" /\ calls = 0 /\ phase # "none") =>
        /\ phase # "failed"
        /\ \A i \in EngineCalls : log[i].key[1] = "ccf_ds_pm"
        /\ \A i \in Events :
              log[i].op \in {"write", "scale"} =>
                  log[i].key[1] \notin {"fs_ds_pm", "ds_fs_pm"}
        /\ pc = 7 => /\ Cardinality(EngineCalls) = 1
                     /\ EdgePaths("ccf_ds_pm") \subseteq ex

\* C3 (resolve-or-skip for parameter sets): when all configured parameter
\* files of an edge exist at the moment its resolution step is entered,
\* then until that step ends the registration engine / scale computation
\* is not invoked for that edge, no volume is read, and no parameter file
\* of that edge is written.
C3_ResolveOrSkipPm ==
    \A i \in Events :
        (log[i].op = "enter" /\ log[i].key[1] \in ResolutionSteps) =>
            \A edge \in EdgesOf(log[i].key[1]) :
                EdgePaths(edge) \subseteq log[i].ex =>
                    \A j \in Within(i, "exit") :
                        /\ ~(log[j].op \in {"elastix", "scale", "write"}
                             /\ log[j].key[1] = edge)
                        /\ log[j].op \notin {"read", "read_src"}

\* a registration step was entered with all parameter files of its edge on
\* disk, and it returned
C3_Witness ==
    \E i \in Events :
        /\ log[i].op = "enter"
        /\ log[i].key[1] \in {"register_downsampled_to_ccf",
                              "register_ccf_to_downsampled"}
        /\ \A edge \in EdgesOf(log[i].key[1]) : EdgePaths(edge) \subseteq log[i].ex
        /\ Returned(i, "exit")

\* C4 (stage order): a register() run enters the six stages in the one
\* fixed order, each only after the previous one has returned, and no
\* registration-engine call happens before both scale parameter files
\* exist and the scale-resolution stage has returned.
C4_FixedOrder ==
    pc >= 1 =>
        /\ Len(StageEvents) = (IF phase = "failed" THEN 2 * pc - 1
                               ELSE 2 * (pc - 1))
        /\ \A k \in 1..Len(StageEvents) :
              /\ StageEvents[k].op = (IF k % 2 = 1 THEN "enter" ELSE "exit")
              /\ StageEvents[k].key[1] = StageNames[(k + 1) \div 2]
        /\ \A i \in EngineCalls :
              /\ {fs_ds_pm_path[1], ds_fs_pm_path[1]} \subseteq log[i].ex
              /\ \E j \in 1..(i - 1) :
                    /\ log[j].op = "exit"
                    /\ log[j].key[1] = StageNames[1]

\* a register() run went through all six stages and invoked the
\* registration engine on the way
C4_Witness == pc = 7 /\ phase = "ready" /\ EngineCalls # {}

\* C5 (resolve-or-skip for output artifacts): when the output file of an
\* artifact exists at the moment its getter is called, the transform engine
\* is not invoked for that artifact until the getter ends.
C5_ResolveOrSkipOutput ==
    \A i \in Events :
        (log[i].op = "call" /\ OutputOf(log[i].key) \in log[i].ex) =>
            \A j \in Within(i, "return") :
                ~(log[j].op = "transformix" /\ log[j].key = OutputOf(log[i].key))

\* a getter was called with its output file on disk, and it returned
C5_Witness ==
    \E i \in Events :
        /\ log[i].op = "call" /\ OutputOf(log[i].key) \in log[i].ex
        /\ Returned(i, "return")

\* C6 (fast path returns the artifact): when the output file of an artifact
\* exists at the moment its getter is called, the getter returns without
\* an exception, and what it returns is the volume it read from that file,
\* never None.
C6_FastPathReturns ==
    \A i \in Events :
        (log[i].op = "call" /\ OutputOf(log[i].key) \in log[i].ex) =>
            \E j \in Within(i, "return") :
                /\ log[j].op = "return" /\ log[j].key = log[i].key
                /\ log[j].img # NoImg
                /\ \E r \in (i + 1)..j :
                      /\ log[r].op = "read"
                      /\ log[r].key = OutputOf(log[i].key)
                      /\ log[r].img = log[j].img

\* C7 (compute-then-persist): every artifact that a stage computes through
\* the transform engine, and that the configuration asks to be saved, is
\* written to its output path before that stage ends.
C7_ComputeThenPersist ==
    \A i \in Events :
        (log[i].op = "enter" /\ \E k \in 1..6 : log[i].key[1] = StageNames[k]) =>
            \A t \in Within(i, "exit") :
                (log[t].op = "transformix" /\ brp[SaveFlag(log[t].key)]) =>
                    \E u \in Within(i, "exit") :
                        /\ u > t
                        /\ log[u].op = "write"
                        /\ log[u].key = log[t].key

\* C8 (disk is the sole truth of edge resolution): a parameter set is
\* loaded, or its load attempted, only when every configured file of its
\* edge exists, and a registration step skips the registration engine only
\* when every configured file of its edge exists.
C8_DiskSoleTruth ==
    \A i \in Events :
        /\ log[i].op = "load_pm" => EdgePaths(log[i].key[1]) \subseteq log[i].ex
        /\ (/\ log[i].op = "enter"
            /\ log[i].key[1] \in {"register_downsampled_to_ccf",
                                  "register_ccf_to_downsampled"}
            /\ Returned(i, "exit")
            /\ \A j \in Within(i, "exit") : log[j].op # "elastix") =>
               \A edge \in EdgesOf(log[i].key[1]) :
                   EdgePaths(edge) \subseteq log[i].ex

\* the edges, by the name of their parameter files
Edges == {"fs_ds_pm", "ds_fs_pm", "ds_ccf_pm", "ccf_ds_pm"}

\* the events the step from the current state to the next one logs
NewEvents ==
    IF Len(log') >= Len(log) /\ SubSeq(log', 1, Len(log)) = log
    THEN (Len(log) + 1)..Len(log')
    ELSE 1..Len(log')

\* the step is one of an orchestrator, not the deletion of files by hand
OrchestratorStep == ~(kind' = "deleted" /\ kind # "deleted")

\* C9 (parameter sets are immutable once persisted): from a state in which
\* all parameter files of an edge exist, no operation of an orchestrator
\* (construction, a stage method, a stage of a full register()) writes,
\* renames onto or deletes a parameter file of that edge: the files still
\* exist afterwards, with the content they had, and the operation logged
\* no write to any of them.
C9_Immutable ==
    [][\A edge \in Edges :
          (EdgePaths(edge) \subseteq ex /\ OrchestratorStep) =>
              /\ \A f \in EdgePaths(edge) : f \in ex' /\ data'[f] = data[f]
              /\ \A i \in NewEvents :
                    ~(log'[i].op = "write" /\ log'[i].key[1] = edge)]_vars

\* every parameter file of every edge was on disk when this orchestrator
\* was constructed, and its register() run has since written to the cache
\* and returned
C9_Witness ==
    /\ pc = 7 /\ phase = "ready"
    /\ \A edge \in Edges : EdgePaths(edge) \subseteq ex0
    /\ \E i \in Events : log[i].op = "write"

\* C10 (annotation interpolation): whenever the transform engine is invoked
\* on an annotation volume (CCF -> DS annotation, DS -> FS annotation),
\* every map of the parameter set passed to it has final interpolation
\* order nearest-neighbour.
C10_AnnotationNearestNeighbour ==
    \A i \in Events :
        (/\ log[i].op = "transformix"
         /\ \/ log[i].img.src = "ccf_annotation"
            \/ log[i].key \in {ccf_annotation_path_ds, ccf_annotation_path_ds_fs}) =>
            \A m \in 1..Len(log[i].pm) : log[i].pm[m].order = NearestNeighbour

\* the transform engine was invoked on the annotation with a set derived
\* from a persisted set of continuous order
C10_Witness ==
    \E i \in Events :
        /\ log[i].op = "transformix"
        /\ log[i].key = ccf_annotation_path_ds
        /\ log[i].pm # NoPm
        /\ \A f \in EdgePaths("ccf_ds_pm") :
              f \in log[i].ex /\ data[f].order = ContinuousOrder

\* C11 (deriving the annotation set leaves its source untouched): when
\* edit_pms_nearest_neighbour returns, the in-memory continuous-image set it
\* was handed (ds_fs_pm, ccf_ds_pm) has, for every map, the interpolation
\* order it had when the method was called.
C11_SourceUntouched ==
    \A i \in Events :
        (log[i].op = "edited" /\ i > 1) =>
            /\ log[i - 1].op = "edit" /\ log[i - 1].key = log[i].key
            /\ Len(log[i].pm) = Len(log[i - 1].pm)
            /\ \A m \in 1..Len(log[i].pm) :
                  log[i].pm[m].order = log[i - 1].pm[m].order

---------------------------------------------------------------------------
(* The claims about the pixel reconciler (specification SpecReconcile) *)

\* the pixel types cast_image has a branch for
SupportedTypes == {PixelTypeOf(d) : d \in {"int8", "uint8", "int16", "uint16"}}

\* min(max(v, lo), hi)
Saturate(v, lo, hi) ==
    LET up == IF v > lo THEN v ELSE lo
    IN IF up < hi THEN up ELSE hi

\* voxel i of the returned volume is the saturated value of voxel i of the
\* transformed volume with its fraction dropped, and lies in the range of
\* the original
ClampedThenCast(i) ==
    /\ px.out.vox[i] =
          Whole(Truncate(Saturate(px.raw.vox[i], Minimum(px.orig), Maximum(px.orig))))
    /\ px.out.vox[i] >= Minimum(px.orig)
    /\ px.out.vox[i] <= Maximum(px.orig)

\* C12 as stated (pixel reconciliation clamps before casting): for an
\* original volume with value range [lo, hi] of any pixel type and any
\* transformed voxel value v, the output voxel equals min(max(v, lo), hi)
\* converted to an integer, lies in [lo, hi] and is not wrapped.
C12_ClampThenCast ==
    px.out # NoVolume =>
        /\ Len(px.out.vox) = Len(px.raw.vox)
        /\ \A i \in 1..Len(px.raw.vox) : ClampedThenCast(i)

\* C12 as amended: the same, for an original volume whose pixel type is
\* one of int8, uint8, int16, uint16.
C12_ClampThenCastSupported ==
    (px.out # NoVolume /\ px.orig.ty \in SupportedTypes) =>
        /\ Len(px.out.vox) = Len(px.raw.vox)
        /\ \A i \in 1..Len(px.raw.vox) : ClampedThenCast(i)

\* a 16-bit unsigned original with range [0, 4095] and a transformed volume
\* holding -3 and 5000 gave 0 and 4095
C12_Witness ==
    /\ px.orig = Volume("16-bit unsigned integer", <<Whole(0), Whole(4095)>>)
    /\ px.raw.vox = <<Whole(-3), Whole(5000)>>
    /\ px.out.vox = <<Whole(0), Whole(4095)>>

\* C13 (type of the reconciled volume): the volume transform_image returns
\* has the pixel type of the volume handed to the transform engine when
\* that type is one of int8, uint8, int16, uint16, and is 16-bit unsigned
\* for every other type; its voxels are whole numbers, one for each voxel
\* of the engine's result.
C13_ReconciledType ==
    px.out # NoVolume =>
        /\ px.out.ty = (IF px.orig.ty \in SupportedTypes THEN px.orig.ty
                        ELSE "16-bit unsigned integer")
        /\ Len(px.out.vox) = Len(px.raw.vox)
        /\ \A i \in 1..Len(px.out.vox) : px.out.vox[i] % Den = 0

\* transform_image returned for a moving image of a pixel type cast_image
\* has no branch for
C13_Witness ==
    /\ px.out # NoVolume
    /\ px.orig.ty = "32-bit float"
    /\ px.out.ty = "16-bit unsigned integer"

---------------------------------------------------------------------------
(* The claims about the filter pipeline (specification SpecFilter) *)

\* the codes of the grammar and the filter each stands for
KnownCodes == {<<"M">>, <<"G">>, <<"G", "H">>}
FilterName(code) ==
    CASE code = <<"M">> -> "Median"
      [] code = <<"G">> -> "Gaussian"
      [] code = <<"G", "H">> -> "Gaussian-High-Pass"

\* the integers of a kernel, in order
Integers(kernel) ==
    LET ints == SelectSeq(kernel, LAMBDA t : t.n >= 0)
    IN [i \in 1..Len(ints) |-> ints[i].n]

Malformed(kernel) ==
    \/ \E t \in 1..Len(kernel) : kernel[t].n < 0
    \/ Len(Integers(kernel)) = 0
    \/ Len(Integers(kernel)) > 3

\* C15 (malformed kernels are rejected): constructing a pipeline from a
\* spec with a clause of a known code whose kernel is malformed fails, and
\* no pipeline is produced.
C15_MalformedRejected ==
    (/\ fp.made
     /\ \E i \in 1..Len(fp.clauses) :
           fp.clauses[i].code \in KnownCodes /\ Malformed(fp.clauses[i].kernel)) =>
        /\ fp.err # "none"
        /\ fp.img_filter = <<>>

\* C16 (execution order): what execute_pipeline leaves in filtered_img is
\* the image that was set, with the filters of the pipeline applied to it
\* one after the other in spec order; with an empty pipeline it is the
\* image that was set.
C16_ExecuteInOrder ==
    fp.ran # NoImg =>
        /\ fp.filtered_img.src = fp.ran.src
        /\ fp.filtered_img.n = fp.ran.n
        /\ Len(fp.filtered_img.ops) = Len(fp.ran.ops) + Len(fp.img_filter)
        /\ SubSeq(fp.filtered_img.ops, 1, Len(fp.ran.ops)) = fp.ran.ops
        /\ \A i \in 1..Len(fp.img_filter) :
              fp.filtered_img.ops[Len(fp.ran.ops) + i] =
                  [k |-> fp.img_filter[i].flt, a |-> fp.img_filter[i].name,
                   o |-> fp.img_filter[i].kernel]
        /\ fp.img_filter = <<>> => fp.filtered_img = fp.ran

\* a pipeline of two different filters was executed on an image
C16_Witness ==
    /\ fp.ran # NoImg
    /\ Len(fp.img_filter) = 2
    /\ fp.img_filter[1] # fp.img_filter[2]
    /\ Len(fp.filtered_img.ops) = 2

---------------------------------------------------------------------------
(* The claims about the scale-factor calculator (specification SpecScale) *)

\* f, in units of 1 / Unit, is n / d rounded to a nearest multiple of
\* 1 / Unit
Rounded(f, n, d) ==
    /\ 2 * (f * d - n * Unit) <= d
    /\ 2 * (n * Unit - f * d) <= d

\* C17 (scale factors): on every axis the sample -> CCF factor is the
\* sample resolution over the CCF resolution and the CCF -> sample factor
\* the CCF resolution over the sample resolution, each rounded to
\* RoundDigits decimal digits; for resolutions 1 and 25 they are 0.04 and
\* 25.0.
C17_ScaleFactors ==
    sc.s2c # <<>> =>
        \A a \in 1..3 :
            /\ Rounded(sc.s2c[a], sc.sample[a], sc.ccf[a])
            /\ Rounded(sc.c2s[a], sc.ccf[a], sc.sample[a])
            /\ (sc.sample[a] = 1 /\ sc.ccf[a] = 25) =>
                   /\ 100 * sc.s2c[a] = 4 * Unit
                   /\ sc.c2s[a] = 25 * Unit

\* the factors were computed for resolution 1 against 25 on every axis
C17_Witness ==
    /\ sc.s2c # <<>>
    /\ \A a \in 1..3 : sc.sample[a] = 1 /\ sc.ccf[a] = 25

\* a scaling map is diagonal with diagonal f and has no translation
DiagonalMap(pm, f) ==
    /\ Len(pm.TransformParameters) = 12
    /\ \A i \in 1..12 :
          pm.TransformParameters[i] =
              (IF i \in {1, 5, 9} THEN f[(i + 3) \div 4] ELSE 0)

\* s, in units of 1 / Unit, is a whole number nearest to extent * f
SizedBy(s, extent, f) ==
    /\ s % Unit = 0
    /\ 2 * (s - extent * f) <= Unit
    /\ 2 * (extent * f - s) <= Unit

\* the size of the downsampled template: what the transform engine makes
\* of the sample template with the FS -> DS map
DownsampledSize(a) == sc.fs_ds_pm.Size[a] \div Unit

\* C18 as stated (scaling parameter maps): each of the two maps is
\* diagonal, with no translation, holds one direction's ratios on its
\* diagonal, and has as Size its source volume's extent times the opposite
\* direction's ratio, rounded to the nearest integer: for FS -> DS the
\* sample template's extent times s2c, for DS -> FS the downsampled
\* template's extent times c2s.
C18_ScalingMaps ==
    /\ sc.fs_ds_pm # NoScaling =>
          /\ DiagonalMap(sc.fs_ds_pm, sc.c2s)
          /\ \A a \in 1..3 : SizedBy(sc.fs_ds_pm.Size[a], sc.size[a], sc.s2c[a])
    /\ (sc.fs_ds_pm # NoScaling /\ sc.ds_fs_pm # NoScaling) =>
          /\ DiagonalMap(sc.ds_fs_pm, sc.s2c)
          /\ \A a \in 1..3 :
                SizedBy(sc.ds_fs_pm.Size[a], DownsampledSize(a), sc.c2s[a])

\* C18 as amended: each of the two maps is diagonal, with no translation;
\* the FS -> DS map holds c2s on its diagonal and has as Size the sample
\* template's extent times s2c, rounded to the nearest integer; the
\* DS -> FS map holds s2c on its diagonal and has as Size the sample
\* template's extent itself.
C18_ScalingMapsAsComputed ==
    /\ (sc.fs_ds_pm # NoScaling /\ sc.s2c # <<>>) =>
          /\ DiagonalMap(sc.fs_ds_pm, sc.c2s)
          /\ \A a \in 1..3 : SizedBy(sc.fs_ds_pm.Size[a], sc.size[a], sc.s2c[a])
    /\ (sc.ds_fs_pm # NoScaling /\ sc.s2c # <<>>) =>
          /\ DiagonalMap(sc.ds_fs_pm, sc.s2c)
          /\ \A a \in 1..3 : sc.ds_fs_pm.Size[a] = sc.size[a] * Unit

\* both maps were computed, for a sample template whose extent is not its
\* downsampled extent times c2s
C18_Witness ==
    /\ sc.fs_ds_pm # NoScaling /\ sc.ds_fs_pm # NoScaling /\ sc.s2c # <<>>
    /\ \E a \in 1..3 : DownsampledSize(a) * sc.c2s[a] # sc.size[a] * Unit

\* C19 (scale round trip): the output grid Size of the DS -> FS map is
\* within one voxel of the extent of the sample template on every axis,
\* whichever runs generated the two scale parameter files.
C19_RoundTrip ==
    (sc.fs_ds_pm # NoScaling /\ sc.ds_fs_pm # NoScaling) =>
        \A a \in 1..3 :
            /\ sc.ds_fs_pm.Size[a] - sc.size[a] * Unit <= Unit
            /\ sc.size[a] * Unit - sc.ds_fs_pm.Size[a] <= Unit

\* the two scale parameter files were generated in different runs, for
\* an extent that the two ratios do not give back
C19_Witness ==
    /\ sc.fs_ds_pm # NoScaling /\ sc.ds_fs_pm # NoScaling
    /\ sc.fs_ds_run # sc.ds_fs_run
    /\ sc.s2c # <<>>
    /\ \E a \in 1..3 : DownsampledSize(a) * sc.c2s[a] # sc.size[a] * Unit

---------------------------------------------------------------------------
(* The claim about an invalid configuration (specification Spec) *)

\* for DS -> CCF or CCF -> DS the configuration declares parameters-files
\* and transform-params-filenames that differ in number
CountsDiffer ==
    \/ brp.pm_files # brp.ds_ccf_parameters_files
    \/ brp.pm_files # brp.ccf_ds_parameters_files

\* C20 (ConfigurationInvalid): where, for DS -> CCF or CCF -> DS, the
\* parameters-files and the transform-params-filenames of the configuration
\* differ in number, the construction of the orchestrator ends in the error
\* of sys.exit; no stage is ever entered, no output directory is created
\* and no file is written.
C20_ConfigurationInvalid ==
    CountsDiffer =>
        /\ phase \in {"none", "failed"}
        /\ phase = "failed" <=>
               err \in {"SystemExit: downsampled-to-ccf lengths",
                        "SystemExit: ccf-to-downsampled lengths"}
        /\ pc = 0 /\ calls = 0
        /\ \A i \in Events : log[i].op \notin {"enter", "write", "elastix"}
        /\ ex = {}
        /\ data = NoData

\* the construction over a configuration whose DS -> CCF lists differ in
\* length was tried and ended in the error
C20_Witness ==
    /\ brp.pm_files # brp.ds_ccf_parameters_files
    /\ phase = "failed"
    /\ err = "SystemExit: downsampled-to-ccf lengths"

---------------------------------------------------------------------------
(* The claims about faults (specification SpecFault) *)

\* what a "write" event of the log put into its file
WrittenBy(e) == IF e.key \in PmFiles THEN e.pm[1] ELSE e.img

\* every file persisted before this orchestrator was constructed, and
\* every file it has written, is as it was persisted
PersistedUnchanged ==
    /\ \A f \in ex0 \cap Files : f \in ex /\ data[f] = data0[f]
    /\ \A j \in Events :
          log[j].op = "write" =>
              /\ log[j].key \in ex
              /\ data[log[j].key] = WrittenBy(log[j])

\* the i-th thing the process did was an engine call that failed: elastix
\* wrote fewer TransformParameters files than the edge has stages
EngineFailedAt(i) ==
    log[i].op = "elastix" /\ log[i].key[2] < brp.pm_files

\* C21 (EngineFailure): where the registration engine fails during the
\* registration of an edge, the run ends there with the engine's error:
\* the engine call is the last thing the process did, no stage is run
\* after it, none of the parameter files of that edge exists in the cache,
\* and every artifact persisted before is unchanged.
C21_EngineFailure ==
    \A i \in Events :
        EngineFailedAt(i) =>
            /\ i = Len(log)
            /\ phase = "failed" /\ err = "RuntimeError: elastix failed"
            /\ pc \in {0, 2, 4}
            /\ EdgePaths(log[i].key[1]) \cap ex = {}
            /\ PersistedUnchanged

\* the engine failed at the second edge, having written one of its files,
\* after the files of the first edge were persisted
C21_Witness ==
    /\ \E i \in Events : EngineFailedAt(i)
    /\ env.fails = "ccf_ds_pm" /\ env.after = 1
    /\ cwd # <<>>
    /\ EdgePaths("ds_ccf_pm") \subseteq ex

\* the getters that report a parameter set they cannot resolve
ReportingGetters ==
    {"get_template_ds", "get_ccf_annotation_ds", "get_ccf_annotation_ds_fs"}

\* the last getter the process entered
LastCall ==
    CHOOSE i \in Events :
        /\ log[i].op = "call"
        /\ \A j \in Events : log[j].op = "call" => j <= i

\* the process ended where a transform step was handed no parameter set,
\* within one of the three getters
MissingUpstream ==
    /\ phase = "failed"
    /\ err = "TypeError: 'NoneType' object is not subscriptable"
    /\ \E i \in Events : log[i].op = "call"
    /\ log[LastCall].key[1] \in ReportingGetters

IsTorn(img) == \E k \in DOMAIN img.ops : img.ops[k].a = "torn"

\* the cache this orchestrator was constructed over was left by a process
\* interrupted while persisting: some but not all parameter files of an
\* edge, or a volume file cut short
PartialSet(edge) ==
    EdgePaths(edge) \cap ex0 # {} /\ ~(EdgePaths(edge) \subseteq ex0)
InterruptedCache ==
    \/ \E edge \in {"ds_ccf_pm", "ccf_ds_pm"} : PartialSet(edge)
    \/ \E f \in ex0 \cap VolFiles : IsTorn(data0[f])

\* the constructor of this orchestrator raised
ConstructionFailed == phase = "failed" /\ pc = 0 /\ calls = 0

\* C23 (crash safety): over a cache left by a process that was interrupted
\* while persisting an artifact (between the renames of a parameter set,
\* or during the write of a volume file), the construction of the next
\* orchestrator succeeds and no partially written file is loaded.
C23_CrashSafe ==
    (InterruptedCache /\ phase # "none") =>
        /\ ~ConstructionFailed
        /\ \A i \in Events : log[i].op = "read" => ~IsTorn(log[i].img)

---------------------------------------------------------------------------
(* The claims about the prefilters (specification Spec) *)

\* the prefilter setting of an edge
PrefilterOf(edge) ==
    IF edge = "ds_ccf_pm" THEN brp.ds_ccf_prefilter ELSE brp.ccf_ds_prefilter

\* the specs of the prefilter pipelines that ran on a volume, in order
PrefiltersOn(img) ==
    LET fs == SelectSeq(img.ops, LAMBDA o : /\ o.k = "F"
                                            /\ o.a # compute_adaptive_filter_fs_ds)
    IN [k \in 1..Len(fs) |-> fs[k].a]

\* C24 (prefilter, identical and per edge): the moving and the fixed volume
\* handed to the registration engine for an edge whose prefilter setting is
\* not "none" are each the output of the pipeline built from that edge's
\* own setting, and of no other prefilter pipeline; for an edge whose
\* setting is "none" they are volumes no prefilter pipeline ran on.
C24_PrefilterPerEdge ==
    \A i \in EngineCalls :
        /\ PrefiltersOn(log[i].img) = PrefiltersOn(log[i].img2)
        /\ PrefiltersOn(log[i].img) =
               (IF PrefilterOf(log[i].key[1]) = "none" THEN <<>>
                ELSE <<compute_adaptive_filter(PrefilterOf(log[i].key[1]))>>)

\* both edges were registered in one process, each with its own pipeline
C24_Witness ==
    \E i, j \in EngineCalls :
        /\ i < j
        /\ log[i].key[1] = "ds_ccf_pm" /\ PrefiltersOn(log[i].img) = <<"M,4,4,4">>
        /\ log[j].key[1] = "ccf_ds_pm" /\ PrefiltersOn(log[j].img) = <<"G,2,2,2">>

\* the runs of the prefilter pipeline of an edge
PrefilterRuns(edge) ==
    {i \in Events : /\ log[i].op = "filter"
                    /\ PrefilterOf(edge) # "none"
                    /\ log[i].key[1] = compute_adaptive_filter(PrefilterOf(edge))}

\* the entries of the registration stage of an edge
RegistrationEntries(edge) ==
    {i \in Events : /\ log[i].op = "enter"
                    /\ log[i].key[1] = (IF edge = "ds_ccf_pm"
                                        THEN "register_downsampled_to_ccf"
                                        ELSE "register_ccf_to_downsampled")}

StageReturnedAfter(c) ==
    /\ log[c].op = "elastix" /\ ~EngineFailedAt(c)
    /\ \E x \in Events :
          /\ x > c /\ x = Len(log) /\ log[x].op = "exit"
          /\ log[x].key[1] \in {"register_downsampled_to_ccf",
                                 "register_ccf_to_downsampled"}
          /\ \A j \in Events : (c < j /\ j < x) => log[j].op = "write"

\* C27 (engine side effects are cleaned up): when a registration stage
\* that invoked the engine returns, no IterationInfo file and no
\* TransformParameters file is left in the working directory, and the i-th
\* TransformParameters file, in ascending order, is at the i-th configured
\* parameter-file path of the edge, for every i up to the number of
\* configured stages.
C27_EngineCleanUp ==
    \A c \in Events :
        StageReturnedAfter(c) =>
            /\ IterationInfo \cap ex = {}
            /\ cwd = <<>>
            /\ \A i \in 1..brp.pm_files :
                  /\ <<log[c].key[1], i>> \in ex
                  /\ data[<<log[c].key[1], i>>] =
                         ElastixOutput(log[c].img, log[c].img2,
                                       elastix_params(World, log[c].key[1]))[i]

\* the stage returned after an engine call that followed a failed one,
\* which had left an IterationInfo file and a TransformParameters file
C27_Witness ==
    \E f, c \in Events :
        /\ f < c /\ EngineFailedAt(f) /\ log[f].key[2] = 1
        /\ IterationInfo \subseteq log[c].ex
        /\ StageReturnedAfter(c)

---------------------------------------------------------------------------
(* The claims about the stages (specification Spec) *)

\* the registration stage of an edge was entered at i with parameter files
\* of the edge absent and had to produce the downsampled template: it was
\* neither on disk nor in memory, so that get_template_ds was called
NeedsTemplate(i, edge) ==
    /\ i \in RegistrationEntries(edge)
    /\ ~(EdgePaths(edge) \subseteq log[i].ex)
    /\ template_path_ds \notin log[i].ex
    /\ \E c \in Events : /\ c > i
                          /\ log[c].op = "call"
                          /\ log[c].key[1] = "get_template_ds"

\* C26 (recursive upstream resolution): a registration stage entered with
\* its parameter files absent and the downsampled template neither in
\* memory nor on disk first transforms the full-resolution template with
\* the FS -> DS scale parameter set and then invokes the registration
\* engine, also on an orchestrator whose FS -> DS parameter file does not
\* exist.
C26_RecursiveUpstream ==
    \A edge \in {"ds_ccf_pm", "ccf_ds_pm"} :
        \A i \in Events :
            NeedsTemplate(i, edge) =>
                \E t, c \in Events :
                    /\ i < t /\ t < c
                    /\ log[t].op = "transformix" /\ log[t].key = template_path_ds
                    /\ log[c].op = "elastix" /\ log[c].key[1] = edge

---------------------------------------------------------------------------
(* The claims about the two registrations (specification SpecInterleave) *)

\* the engine call of a registration that runs on its own, first, over the
\* cache the two orchestrators were constructed over
AloneCall(name) ==
    LET w == UpToEngine(name, [World EXCEPT !.ex = ex0, !.data = data0,
                                            !.cwd = <<>>, !.log = <<>>])
    IN w.log[Len(w.log)]

\* C28 (the two registrations are independent): in whatever order, and
\* however interleaved, the two registration stages run from a state where
\* the downsampled template is available, the engine is handed for each
\* edge the moving and fixed volumes and the templates it is handed where
\* that registration runs alone, and once both stages have returned each
\* edge's parameter files are at that edge's own paths, holding what the
\* engine wrote for that edge.
C28_Independent ==
    /\ \A i \in EngineCalls :
          \A name \in Registrations :
             log[i].key[1] = EdgeOfStage(name) =>
                 /\ log[i].img = AloneCall(name).img
                 /\ log[i].img2 = AloneCall(name).img2
                 /\ log[i].key = AloneCall(name).key
    /\ (\A name \in Registrations : StageReturned(name)) =>
          \A edge \in {"ds_ccf_pm", "ccf_ds_pm"} :
             \A p \in EdgePaths(edge) :
                /\ p \in ex
                /\ data[p].edge = edge

\* the same, of the runs in which one registration returns before the
\* other is entered
C28_InSequence ==
    (\E name \in Registrations :
        \E i, j \in Events :
           /\ i < j
           /\ log[i].op = "exit" /\ log[i].key[1] = name
           /\ log[j].op = "enter" /\ log[j].key[1] # name)
    => C28_Independent

---------------------------------------------------------------------------
(* The claims about memory (specification Spec) *)

\* the last thing the process did was to return from a stage method
StageJustReturned ==
    /\ log # <<>>
    /\ log[Len(log)].op = "exit"
    /\ \E k \in 1..6 : log[Len(log)].key[1] = StageNames[k]

\* C29 (memory release): after any stage method returns, called from
\* register() or on its own, the orchestrator holds no reference to the
\* full-resolution sample template volume: template_img is not loaded.
C29_TemplateReleased ==
    StageJustReturned => self.template_img = NoImg

\* the same, of the stages that register() calls
C29_InRegister ==
    (StageJustReturned /\ pc >= 1) => self.template_img = NoImg

---------------------------------------------------------------------------
(* The claims about retries (specification SpecFault) *)

\* C30 (no automatic retries): within one register() run the registration
\* engine is invoked at most once for each edge, so at most twice in all,
\* and an invocation that failed is never followed by another invocation
\* in the same run.
C30_NoRetry ==
    pc >= 1 =>
        /\ \A i, j \in EngineCalls :
              log[i].key[1] = log[j].key[1] => i = j
        /\ Cardinality(EngineCalls) <= 2
        /\ \A i, j \in EngineCalls : EngineFailedAt(i) => j <= i

\* a register() run whose first registration succeeded and whose second
\* one the engine failed at: the run ended there
C30_Witness ==
    /\ pc >= 1 /\ phase = "failed"
    /\ \E i, j \in EngineCalls :
          /\ i < j
          /\ ~EngineFailedAt(i)
          /\ EngineFailedAt(j)

---------------------------------------------------------------------------
(* The claims about the two edges (specification Spec) *)

\* the volume is the CCF template, filtered or not
IsCcfTemplate(img) == img.src = "ccf_template"

\* the volume is the downsampled sample template: the sample template
\* after the transform FS -> DS
IsTemplateDs(img) ==
    /\ img.src = "template"
    /\ \E k \in DOMAIN img.ops : img.ops[k].k = "T" /\ img.ops[k].a = "fs_ds_pm"

\* the moving and the fixed volume of an edge are those of its direction
OwnDirection(edge, mov, fix) ==
    IF edge = "ds_ccf_pm"
    THEN IsTemplateDs(mov) /\ IsCcfTemplate(fix)
    ELSE IsCcfTemplate(mov) /\ IsTemplateDs(fix)

\* C31 (CCF -> DS is registered on its own, not inverted): every engine
\* call for DS -> CCF has moving = downsampled template and fixed = CCF
\* template, every engine call for CCF -> DS has moving = CCF template and
\* fixed = downsampled template; every parameter file at the paths of an
\* edge is the output of an engine call for that edge, made from that
\* edge's own templates and volumes, and is written from the output of the
\* latest engine call, which was one for that edge.
C31_IndependentRegistration ==
    /\ \A i \in EngineCalls :
          OwnDirection(log[i].key[1], log[i].img, log[i].img2)
    /\ \A edge \in {"ds_ccf_pm", "ccf_ds_pm"} :
          \A p \in EdgePaths(edge) :
             p \in ex =>
                 /\ data[p].edge = edge
                 /\ data[p].i = p[2]
                 /\ OwnDirection(edge, data[p].mov, data[p].fix)
    /\ \A j \in Events :
          (log[j].op = "write" /\ log[j].key[1] \in {"ds_ccf_pm", "ccf_ds_pm"}) =>
              \E i \in EngineCalls :
                 /\ i < j
                 /\ log[i].key[1] = log[j].key[1]
                 /\ \A k \in EngineCalls : k < j => k <= i
                 /\ log[j].pm[1].mov = log[i].img
                 /\ log[j].pm[1].fix = log[i].img2

\* both edges were registered in one process and their files are there
C31_Witness ==
    /\ \E i, j \in EngineCalls :
          log[i].key[1] = "ds_ccf_pm" /\ log[j].key[1] = "ccf_ds_pm"
    /\ \A edge \in {"ds_ccf_pm", "ccf_ds_pm"} : EdgePaths(edge) \subseteq ex
    /\ brp.pm_files = MaxPm


---------------------------------------------------------------------------
(* The claims about interpolation (specification Spec) *)

\* the transform engine was invoked on a continuous-valued volume: the CCF
\* template on its way to DS, or the CCF template in DS on its way to FS
ContinuousTransforms ==
    {i \in Events : /\ log[i].op = "transformix"
                    /\ log[i].key \in {ccf_template_path_ds,
                                       ccf_template_path_ds_fs}}

\* C32 (continuous-valued volumes keep their interpolation): whenever the
\* transform engine is invoked on the CCF template (CCF template -> DS, CCF
\* template DS -> FS), in a first run or in a run whose parameter files
\* existed at construction, every map of the parameter set passed has the
\* interpolation order of its persisted parameter file, never the
\* nearest-neighbour override made for annotations.
C32_ContinuousInterpolation ==
    \A i \in ContinuousTransforms :
        \A m \in 1..Len(log[i].pm) :
            /\ <<log[i].pm[m].edge, m>> \in log[i].ex
            /\ log[i].pm[m].order = data[<<log[i].pm[m].edge, m>>].order
            /\ log[i].pm[m].order # NearestNeighbour

---------------------------------------------------------------------------
(* The claims about the output volumes (specification Spec) *)

\* C33 (output volumes are written at most once): no stage of register()
\* writes to an output volume file that exists when the write is made, for
\* each of the output artifacts, the downsampled sample template among
\* them: every save is guarded by the non-existence of its target.
C33_WrittenAtMostOnce ==
    pc >= 1 =>
        \A j \in Events :
            (log[j].op = "write" /\ log[j].key \in VolFiles) =>
                log[j].key \notin log[j].ex

\* the same, of every output volume but the downsampled sample template
C33_ButTemplateDs ==
    pc >= 1 =>
        \A j \in Events :
            (/\ log[j].op = "write"
             /\ log[j].key \in VolFiles \ {template_path_ds}) =>
                log[j].key \notin log[j].ex

---------------------------------------------------------------------------
(* The claims about recomputation (specification Spec) *)

\* the engine calls that transform the full-resolution sample template to
\* the downsampled space
TemplateDsTransforms ==
    {t \in Events : /\ log[t].op = "transformix"
                    /\ log[t].img.src = "template"
                    /\ log[t].pm[1].edge = "fs_ds_pm"}

\* C34 (no recomputation of a cached artifact): within one register() run,
\* whatever the save flags are, the downsampled sample template is produced
\* by the transform engine at most once; a later stage that needs it uses
\* the volume in memory or the persisted file.
C34_TemplateDsOnce ==
    pc >= 1 => \A s, t \in TemplateDsTransforms : s = t

\* the same, of the configurations that save the downsampled template
C34_WhereSaved ==
    (pc >= 1 /\ brp.fs_ds_save_template) =>
        \A s, t \in TemplateDsTransforms : s = t

---------------------------------------------------------------------------
(* The claims about the stage FS -> DS (specification Spec) *)

\* the entries of the stage FS -> DS
FsDsEntries ==
    {i \in Events : /\ log[i].op = "enter"
                    /\ log[i].key[1] = "register_transform_fullstack_to_downsampled"}

\* the engine calls of the stage FS -> DS that transform a volume FS -> DS
FsDsStageTransforms ==
    {t \in Events : /\ log[t].op = "transformix"
                    /\ log[t].pm[1].edge = "fs_ds_pm"
                    /\ \E i \in FsDsEntries : t \in Within(i, "exit")}

\* what was done to a volume that the FS -> DS adaptive filter ran on once
FilteredOnce == <<[k |-> "F", a |-> compute_adaptive_filter_fs_ds, o |-> <<>>]>>

\* C35 (identical smoothing within the FS -> DS stage): where the FS -> DS
\* adaptive filter is enabled, the sample template and every sample image
\* transformed in the stage reach the transform engine filtered exactly
\* once, by a pipeline built from the one filter spec of the stage; where
\* it is disabled, none of them is filtered.
C35_IdenticalSmoothing ==
    \A t \in FsDsStageTransforms :
        /\ log[t].img.src \in {"template", "sample"}
        /\ log[t].img.ops = (IF brp.fs_ds_adaptive_filter
                             THEN FilteredOnce ELSE <<>>)

\* the stage transformed the sample template and a sample image, with the
\* filter enabled
C35_Witness ==
    /\ brp.fs_ds_adaptive_filter
    /\ \E s, t \in FsDsStageTransforms :
          /\ log[s].img.src = "template"
          /\ log[t].img.src = "sample"
          /\ log[s].img.ops = FilteredOnce

\* event j loads, transforms or writes sample image n
Handles(j, n) ==
    \/ log[j].op = "read_src" /\ log[j].key = <<"sample", n>>
    \/ log[j].op = "transformix" /\ log[j].key = sample_images_ds(n)
    \/ log[j].op = "write" /\ log[j].key = sample_images_ds(n)

\* the stage entered at event i has returned
HasReturned(i) == log[SegmentEnd(i, "exit")].op = "exit"

---------------------------------------------------------------------------
(* The claims about stale engine output (specification SpecStale) *)

\* the parameter files this process moved into the cache
Moves ==
    {j \in Events : /\ log[j].op = "write"
                    /\ log[j].key[1] \in {"ds_ccf_pm", "ccf_ds_pm"}}

\* the latest engine call of this process before event j
LatestCall(j) ==
    CHOOSE e \in EngineCalls :
        e < j /\ \A k \in EngineCalls : k < j => k <= e

\* C37 (stale engine output is never persisted): every parameter file that
\* save_pm_files moves into the cache is an output of the registration
\* this process has just made, for the edge whose path it is moved to, and
\* not a file an earlier failed or interrupted registration left in the
\* working directory; and save_pm_files moves no more files than the edge
\* has configured parameter-file paths.
C37_NoStalePersisted ==
    \A j \in Moves :
        /\ log[j].key[2] <= brp.pm_files
        /\ \E e \in EngineCalls : e < j
        /\ ~EngineFailedAt(LatestCall(j))
        /\ log[LatestCall(j)].key[1] = log[j].key[1]
        /\ \E k \in 1..brp.pm_files :
              log[j].pm[1] = Map(log[j].key[1], k, ContinuousOrder,
                                 log[LatestCall(j)].img, log[LatestCall(j)].img2)

\* the same, where no registration has more than nine parameter files
C37_FewFiles ==
    (brp.pm_files < 10 /\ \A m \in DOMAIN cwd : cwd[m].i < 10) =>
        C37_NoStalePersisted


---------------------------------------------------------------------------
(* The claims about the yaml (specification SpecConstruct) *)

\* C38 (an unset resolution aborts construction): where an axis of the
\* sample template resolution is 0.0, or the parameters file does not
\* exist, the construction of the orchestrator exits with an error: no
\* scale factor has been computed, no output directory has been created,
\* nothing has been loaded, and no stage runs.
C38_UnsetAborts ==
    (/\ phase # "none"
     /\ \/ ~env.yaml
        \/ ResolutionUnset(brp.sample_template_resolution)) =>
        /\ phase = "failed"
        /\ err \in {"SystemExit: no brainregister_params file!",
                    "SystemExit: image resolution not set"}
        /\ sc.s2c = <<>> /\ sc.c2s = <<>>
        /\ ex \cap Dirs = {}
        /\ log = <<>>
        /\ self = NoSelf
        /\ pc = 0 /\ calls = 0

\* the construction was tried over a yaml that is there, with one axis of
\* the resolution left at 0.0
C38_Witness ==
    /\ phase = "failed"
    /\ env.yaml
    /\ brp.sample_template_resolution[1] # 0
    /\ brp.sample_template_resolution[2] = 0
    /\ err = "SystemExit: image resolution not set"
=============================================================================
